---- MODULE Spec2Model ----
(***************************************************************************)
(* Campus-crate backend: the lending-request state machine, the review and *)
(* rating aggregator and the moderation operations on users, modelled as   *)
(* state machines over the shared document store.                          *)
(*                                                                         *)
(* The booking routes (routes/Lending.js, models/LendingRequest.js) are    *)
(* not part of the sources; the booking engine below follows section 4.1   *)
(* and section 5 of the specification.  Everything else follows the route  *)
(* handlers, one step per store round trip (every await is a point where   *)
(* another request may be served).                                         *)
(***************************************************************************)
EXTENDS Integers, Sequences, FiniteSets, TLC

VARIABLES users, items, requests, reviews, messages, reports, blobs, db,
          nextId, now, bk, procs

vars == <<users, items, requests, reviews, messages, reports, blobs, db,
          nextId, now, bk, procs>>

(***************************************************************************)
(* Bounds                                                                  *)
(***************************************************************************)
NumUsers == 3
NumItems == 2
MaxRequests == 2
MaxDay == 2
MaxReviews == 2
MaxMessages == 2
MaxUploads == 2
MaxViews == 1
MaxReports == 2
NumProcs == 2

UserIds == 1..NumUsers
ItemIds == 1..NumItems
ReqIds == 1..MaxRequests
Days == 0..MaxDay
ProcIds == 1..NumProcs

(***************************************************************************)
(* Records of the store                                                    *)
(***************************************************************************)
\* the database is configured and connected
DbUp == [configured |-> TRUE, connected |-> TRUE, mongoReady |-> TRUE, hits |-> 0]

NoUser == [role |-> "none"]
NoReq == [status |-> "None"]

UserExists(u) == users[u] # NoUser
ReqExists(r) == requests[r] # NoReq

BlockingStatuses == {"Pending", "Accepted", "Active"}
TerminalStatuses == {"Rejected", "Cancelled", "Completed"}

\* closed-interval test: ranges that only touch count as overlapping
OverlapsClosed(s1, e1, s2, e2) == s1 <= e2 /\ s2 <= e1

\* half-open interval overlap test of section 4.1
Overlaps(s1, e1, s2, e2) == s1 < e2 /\ s2 < e1

\* only requests that were already granted reserve the calendar
HasConflictGrantedOnly(reqs, i, s, e, self) ==
  \E r \in ReqIds :
    /\ r # self
    /\ reqs[r] # NoReq
    /\ reqs[r].item = i
    /\ reqs[r].status \in {"Accepted", "Active"}
    /\ s < reqs[r].endDate /\ reqs[r].startDate < e

\* some blocking request on item i other than request self overlaps [s, e]
HasConflict(reqs, i, s, e, self) ==
  \E r \in ReqIds :
    /\ r # self
    /\ reqs[r] # NoReq
    /\ reqs[r].item = i
    /\ reqs[r].status \in BlockingStatuses
    /\ Overlaps(reqs[r].startDate, reqs[r].endDate, s, e)

FreeReqIds == {r \in ReqIds : \A q \in ReqIds : q >= r => requests[q] = NoReq}

NoCall == [op |-> "none", actor |-> 0, req |-> 0, item |-> 0,
           startDate |-> 0, endDate |-> 0, result |-> "none"]

Call(op, actor, req, item, s, e, result) ==
  [op |-> op, actor |-> actor, req |-> req, item |-> item,
   startDate |-> s, endDate |-> e, result |-> result]

\* an item as its owner listed it
InitItem(o, rate) == [owner |-> o, isActive |-> TRUE, dailyRate |-> rate,
                      title |-> "title", viewCount |-> 0]

\* time is counted in half days
TicksPerDay == 2

\* rounds the duration down to whole days
FloorDiv(n, d) == n \div d

\* ceil(n / d)
CeilDiv(n, d) == (n + d - 1) \div d

\* totalCost = dailyRate * ceil(durationInDays)
TotalCost(rate, s, e) == rate * CeilDiv(e - s, TicksPerDay)

\* the check of startDate against now is missing
CreateResultRetroactive(b, i, s, e) ==
  IF ~items[i].isActive THEN "NotFoundError"
  ELSE IF b = items[i].owner \/ ~(s < e) THEN "ValidationError"
  ELSE IF HasConflict(requests, i, s, e, 0) THEN "ConflictError"
  ELSE "Ok"

\* any user may accept
AcceptResultAnyCaller(l, r) ==
  IF ~ReqExists(r) THEN "NotFoundError"
  ELSE IF requests[r].status # "Pending" THEN "InvalidStateError"
  ELSE IF HasConflict(requests, requests[r].item, requests[r].startDate,
                      requests[r].endDate, r) THEN "ConflictError"
  ELSE "Ok"

\* a running rental can be cancelled too
CancelResultActiveToo(u, r) ==
  IF ~ReqExists(r) THEN "NotFoundError"
  ELSE IF u # requests[r].borrower /\ u # requests[r].lender THEN "ForbiddenError"
  ELSE IF requests[r].status \notin {"Pending", "Accepted", "Active"}
       THEN "InvalidStateError"
  ELSE "Ok"

\* completion does not wait for the end of the booked window
CompleteResultAnyTime(r) ==
  IF ~ReqExists(r) THEN "NotFoundError"
  ELSE IF requests[r].status # "Active" THEN "InvalidStateError"
  ELSE "Ok"

(***************************************************************************)
(* Booking engine (section 4.1): every operation is one conditional atomic *)
(* update against the store (section 5).                                   *)
(***************************************************************************)
CreateResult(b, i, s, e) ==
  IF ~items[i].isActive THEN "NotFoundError"
  ELSE IF b = items[i].owner \/ ~(s < e) \/ s < now THEN "ValidationError"
  ELSE IF HasConflict(requests, i, s, e, 0) THEN "ConflictError"
  ELSE "Ok"

CreateRequest(b, i, s, e) ==
  /\ bk = NoCall
  /\ LET res == CreateResult(b, i, s, e)
         r == IF FreeReqIds = {} THEN 0
              ELSE CHOOSE x \in FreeReqIds : \A y \in FreeReqIds : x <= y
     IN /\ res = "Ok" => r # 0
        /\ requests' = IF res = "Ok"
                       THEN [requests EXCEPT ![r] =
                               [item |-> i, borrower |-> b, lender |-> items[i].owner,
                                startDate |-> s, endDate |-> e, status |-> "Pending",
                                totalCost |-> TotalCost(items[i].dailyRate, s, e)]]
                       ELSE requests
        /\ bk' = Call("CreateRequest", b, IF res = "Ok" THEN r ELSE 0, i, s, e, res)
  /\ UNCHANGED <<users, items, reviews, nextId, now, procs, messages, reports, blobs, db>>

AcceptResult(l, r) ==
  IF ~ReqExists(r) THEN "NotFoundError"
  ELSE IF l # requests[r].lender THEN "ForbiddenError"
  ELSE IF requests[r].status # "Pending" THEN "InvalidStateError"
  ELSE IF HasConflict(requests, requests[r].item, requests[r].startDate,
                      requests[r].endDate, r) THEN "ConflictError"
  ELSE "Ok"

Accept(l, r) ==
  /\ bk = NoCall
  /\ LET res == AcceptResult(l, r)
     IN /\ requests' = IF res = "Ok"
                       THEN [requests EXCEPT ![r].status = "Accepted"]
                       ELSE requests
        /\ bk' = Call("Accept", l, r, 0, 0, 0, res)
  /\ UNCHANGED <<users, items, reviews, nextId, now, procs, messages, reports, blobs, db>>

RejectResult(l, r) ==
  IF ~ReqExists(r) THEN "NotFoundError"
  ELSE IF l # requests[r].lender THEN "ForbiddenError"
  ELSE IF requests[r].status # "Pending" THEN "InvalidStateError"
  ELSE "Ok"

Reject(l, r) ==
  /\ bk = NoCall
  /\ LET res == RejectResult(l, r)
     IN /\ requests' = IF res = "Ok"
                       THEN [requests EXCEPT ![r].status = "Rejected"]
                       ELSE requests
        /\ bk' = Call("Reject", l, r, 0, 0, 0, res)
  /\ UNCHANGED <<users, items, reviews, nextId, now, procs, messages, reports, blobs, db>>

\* cancel without looking at the current status
CancelResultAnyStatus(u, r) ==
  IF ~ReqExists(r) THEN "NotFoundError"
  ELSE IF u # requests[r].borrower /\ u # requests[r].lender THEN "ForbiddenError"
  ELSE "Ok"

CancelResult(u, r) ==
  IF ~ReqExists(r) THEN "NotFoundError"
  ELSE IF u # requests[r].borrower /\ u # requests[r].lender THEN "ForbiddenError"
  ELSE IF requests[r].status \notin {"Pending", "Accepted"} THEN "InvalidStateError"
  ELSE "Ok"

Cancel(u, r) ==
  /\ bk = NoCall
  /\ LET res == CancelResult(u, r)
     IN /\ requests' = IF res = "Ok"
                       THEN [requests EXCEPT ![r].status = "Cancelled"]
                       ELSE requests
        /\ bk' = Call("Cancel", u, r, 0, 0, 0, res)
  /\ UNCHANGED <<users, items, reviews, nextId, now, procs, messages, reports, blobs, db>>

\* Accepted -> Active once the booked window has started
Activate(r) ==
  /\ bk = NoCall
  /\ ReqExists(r)
  /\ requests[r].status = "Accepted"
  /\ requests[r].startDate <= now
  /\ requests' = [requests EXCEPT ![r].status = "Active"]
  /\ bk' = Call("Activate", 0, r, 0, 0, 0, "Ok")
  /\ UNCHANGED <<users, items, reviews, nextId, now, procs, messages, reports, blobs, db>>

CompleteResult(r) ==
  IF ~ReqExists(r) THEN "NotFoundError"
  ELSE IF requests[r].status # "Active" \/ ~(requests[r].endDate < now)
       THEN "InvalidStateError"
  ELSE "Ok"

Complete(r) ==
  /\ bk = NoCall
  /\ LET res == CompleteResult(r)
     IN /\ requests' = IF res = "Ok"
                       THEN [requests EXCEPT ![r].status = "Completed"]
                       ELSE requests
        /\ bk' = Call("Complete", 0, r, 0, 0, 0, res)
  /\ UNCHANGED <<users, items, reviews, nextId, now, procs, messages, reports, blobs, db>>

\* the structured response of the last call is handed to the caller
Respond ==
  /\ bk # NoCall
  /\ bk' = NoCall
  /\ UNCHANGED <<users, items, requests, reviews, nextId, now, procs, messages, reports, blobs, db>>

Tick ==
  /\ now <= MaxDay
  /\ now' = now + 1
  /\ UNCHANGED <<users, items, requests, reviews, nextId, bk, procs, messages, reports, blobs, db>>

\* tokenRole is the role claim of the token the user holds (jwt.sign at
\* login); bannedUntil and lastActive are days, bannedUntil 0 for null
InitUser == [role |-> "user", isActive |-> TRUE, isBanned |-> FALSE,
             bannedUntil |-> 0, tokenRole |-> "user", lastActive |-> 0,
             isVerified |-> FALSE, password |-> "right",
             name |-> "name", profileImage |-> 0,
             rating |-> <<0, 1>>, reviewCount |-> 0]

IdleProc == [op |-> "none", pc |-> "idle", actor |-> 0, role |-> "none",
             req |-> 0, target |-> 0, rating |-> 0, newRole |-> "none",
             pw |-> "none", todo |-> {}, sum |-> 0, cnt |-> 0, trole |-> "none",
             newPassword |-> "none",
             resp |-> <<0, "">>, dup |-> FALSE, mgr0 |-> 0, t0 |-> NoUser,
             amgr0 |-> 0, adm0 |-> 0, aadm0 |-> 0,
             isVerified |-> FALSE, content |-> "", found |-> {},
             slack |-> "none", posts |-> 0,
             file |-> "none", url |-> 0, newName |-> "",
             reportedItem |-> 0, reportedUser |-> 0, reason |-> "", status |-> "",
             until |-> 0]

\* the last item of the catalogue may have been deactivated
BookingInit ==
  /\ users = [u \in UserIds |-> InitUser]
  /\ \E off \in BOOLEAN :
       items = [i \in ItemIds |-> IF off /\ i = NumItems
                                  THEN [InitItem(i, 100) EXCEPT !.isActive = FALSE]
                                  ELSE InitItem(i, 100)]
  /\ requests = [r \in ReqIds |-> NoReq]
  /\ reviews = {}
  /\ messages = {}
  /\ reports = {}
  /\ blobs = {}
  /\ db = DbUp
  /\ nextId = 1
  /\ now = 0
  /\ bk = NoCall
  /\ procs = [p \in ProcIds |-> IdleProc]

BookingNext ==
  \/ \E b \in UserIds, i \in ItemIds, s \in Days, e \in Days : CreateRequest(b, i, s, e)
  \/ \E l \in UserIds, r \in ReqIds : Accept(l, r)
  \/ \E l \in UserIds, r \in ReqIds : Reject(l, r)
  \/ \E u \in UserIds, r \in ReqIds : Cancel(u, r)
  \/ \E r \in ReqIds : Activate(r)
  \/ \E r \in ReqIds : Complete(r)
  \/ Respond
  \/ Tick

BookingSpec == BookingInit /\ [][BookingNext]_vars

(***************************************************************************)
(* Pricing of a new request: items of some daily rate, booked by the last  *)
(* user over a horizon of three days counted in half days                  *)
(***************************************************************************)
MaxTick == 6
Ticks == 0..MaxTick
Rates == {0, 40, 100}

CostInit ==
  /\ users = [u \in UserIds |-> InitUser]
  /\ \E ra \in Rates : items = [i \in ItemIds |-> InitItem(i, ra)]
  /\ requests = [r \in ReqIds |-> NoReq]
  /\ reviews = {}
  /\ messages = {}
  /\ reports = {}
  /\ blobs = {}
  /\ db = DbUp
  /\ nextId = 1
  /\ now = 0
  /\ bk = NoCall
  /\ procs = [p \in ProcIds |-> IdleProc]

CostNext ==
  \/ \E i \in ItemIds, s \in Ticks, e \in Ticks : CreateRequest(NumUsers, i, s, e)
  \/ Respond

CostSpec == CostInit /\ [][CostNext]_vars

(***************************************************************************)
(* Properties of the booking engine                                        *)
(***************************************************************************)

AllowedTransitions ==
  { <<"Pending", "Accepted">>, <<"Pending", "Rejected">>, <<"Pending", "Cancelled">>,
    <<"Accepted", "Active">>, <<"Accepted", "Cancelled">>,
    <<"Active", "Completed">>, <<"Active", "Cancelled">> }

\* C2: the status of a request changes only along Pending -> {Accepted,
\* Rejected, Cancelled}, Accepted -> {Active, Cancelled}, Active ->
\* {Completed, Cancelled}; a Rejected, Cancelled or Completed request never
\* changes status again.
C2_StatusTransitions ==
  [][ \A r \in ReqIds :
        ( requests[r] # NoReq /\ requests'[r] # NoReq
          /\ requests'[r].status # requests[r].status )
        => /\ <<requests[r].status, requests'[r].status>> \in AllowedTransitions
           /\ requests[r].status \notin {"Rejected", "Cancelled", "Completed"} ]_vars

\* a party tried to cancel a request that is already terminal
C2_Witness ==
  /\ bk.op = "Cancel" /\ bk.result = "InvalidStateError"
  /\ requests[bk.req].status \in {"Rejected", "Cancelled", "Completed"}

\* C4: a CreateRequest whose preconditions hold fails with ConflictError,
\* creating no request, exactly when some existing request on the same item
\* with status Pending, Accepted or Active satisfies existing.start < new.end
\* and new.start < existing.end; a range starting at an existing end is no
\* conflict.
C4_CreateConflict ==
  [][ ( /\ bk'.op = "CreateRequest"
        /\ bk = NoCall
        /\ bk'.result \notin {"NotFoundError", "ValidationError"} )
      => LET conflict ==
               \E r \in ReqIds :
                 /\ requests[r] # NoReq
                 /\ requests[r].item = bk'.item
                 /\ requests[r].status \in {"Pending", "Accepted", "Active"}
                 /\ requests[r].startDate < bk'.endDate
                 /\ bk'.startDate < requests[r].endDate
         IN /\ (bk'.result = "ConflictError") <=> conflict
            /\ (bk'.result = "ConflictError") => requests' = requests
            /\ (bk'.result = "Ok") =>
                  /\ requests[bk'.req] = NoReq
                  /\ requests'[bk'.req].status = "Pending" ]_vars

\* a request overlapping an accepted booking was refused, while a request
\* starting exactly at that booking's end had been admitted
C4_Witness ==
  /\ bk.op = "CreateRequest" /\ bk.result = "ConflictError"
  /\ \E r1 \in ReqIds, r2 \in ReqIds :
       /\ requests[r1] # NoReq /\ requests[r2] # NoReq
       /\ requests[r1].item = bk.item /\ requests[r2].item = bk.item
       /\ requests[r1].status = "Accepted"
       /\ requests[r2].status = "Pending"
       /\ requests[r2].startDate = requests[r1].endDate
       /\ requests[r1].startDate < bk.endDate /\ bk.startDate < requests[r1].endDate

(***************************************************************************)
(* Route handlers.  A handler is a process: every store round trip (await) *)
(* is one step, together with the synchronous code that follows it.        *)
(***************************************************************************)
NoItem == [owner |-> 0, isActive |-> FALSE, dailyRate |-> 0,
           title |-> "", viewCount |-> 0]

RECURSIVE GCD(_, _)
GCD(a, b) == IF b = 0 THEN a ELSE GCD(b, a % b)

\* a non-negative rational in lowest terms
Norm(n, d) == IF n = 0 THEN <<0, 1>> ELSE <<n \div GCD(n, d), d \div GCD(n, d)>>

\* Math.round(n / d) for n / d >= 0
MathRound(n, d) == (2 * n + d) \div (2 * d)

\* Math.round(avgRating * 10) / 10
RoundedAvg(sum, cnt) == Norm(MathRound(10 * sum, cnt), 10)

\* reviews.length ? sum / reviews.length : 0
PlainAvg(sum, cnt) == IF cnt = 0 THEN <<0, 1>> ELSE Norm(sum, cnt)

RECURSIVE SumRatings(_)
SumRatings(S) ==
  IF S = {} THEN 0
  ELSE LET x == CHOOSE y \in S : TRUE IN x.rating + SumRatings(S \ {x})

\* Review.find({ reviewee })
ReviewsOf(u) == {rv \in reviews : rv.reviewee = u}

\* history only: user a has a stored review for lending request r
HasReviewed(a, r) == \E rv \in reviews : rv.lendingRequest = r /\ rv.reviewer = a

\* history only: the number of users holding the manager role
ManagerCount == Cardinality({u \in UserIds : users[u].role = "manager"})

\* history only: the number of users, and of active users, holding a role
Holders(ro) == Cardinality({u \in UserIds : users[u].role = ro})
ActiveHolders(ro) ==
  Cardinality({u \in UserIds : users[u].role = ro /\ users[u].isActive})

Busy(p) == procs[p].pc \notin {"idle", "done"}
AllIdle == \A p \in ProcIds : procs[p].pc = "idle"

Done(p, status, msg) ==
  [procs EXCEPT ![p].pc = "done", ![p].resp = <<status, msg>>]

Goto(p, pc) == [procs EXCEPT ![p].pc = pc]

\* the response has been sent; the connection is free for the next request
Reply(p) ==
  /\ procs[p].pc = "done"
  /\ procs' = [procs EXCEPT ![p] = IdleProc]
  /\ UNCHANGED <<users, items, requests, reviews, nextId, now, bk, messages, reports, blobs, db>>

(***************************************************************************)
(* middleware/auth.js, middleware/isAdmin.js                               *)
(***************************************************************************)
AuthDenial(u) ==
  IF u = 0 THEN <<401, "NO_TOKEN">>
  ELSE IF ~UserExists(u) THEN <<401, "NO_USER">>
  ELSE IF ~users[u].isActive THEN <<403, "ACCOUNT_DEACTIVATED">>
  ELSE IF users[u].isBanned THEN <<403, "ACCOUNT_BANNED">>
  ELSE <<0, "">>

isAdmin(role) == role = "admin" \/ role = "manager"

\* the role change is open to admins too
isManagerOrAdmin(role) == role = "manager" \/ role = "admin"

\* middleware/isManager.js is not among the sources: the role-change
\* operation is manager-only (section 4.3)
isManager(role) == role = "manager"

\* the rule shields managers only
AdminOnManagerOnly(actorRole, targetRole) ==
  actorRole = "admin" /\ targetRole = "manager"

\* req.user.role === 'admin' && (target.role === 'admin' || target.role === 'manager')
AdminOnPrivileged(actorRole, targetRole) ==
  actorRole = "admin" /\ (targetRole = "admin" \/ targetRole = "manager")

\* count < 1: the guard lets the last holder go
IsLastHolderStrict(count) == count < 1

\* managerCount <= 1, adminCount <= 1
IsLastHolder(count) == count <= 1

\* the synchronous head of each handler, up to its first store access
CreateReview_entry(pr) ==
  IF pr.rating < 1 \/ pr.rating > 5
  THEN [pr EXCEPT !.pc = "done", !.resp = <<400, "Rating must be between 1 and 5">>]
  ELSE [pr EXCEPT !.pc = "findRequest"]

DeleteReview_entry(pr) ==
  IF ~isAdmin(pr.role)
  THEN [pr EXCEPT !.pc = "done", !.resp = <<403, "Forbidden - admin/manager only">>]
  ELSE [pr EXCEPT !.pc = "findReview"]

DeleteAccount_entry(pr) ==
  IF pr.pw = "none"
  THEN [pr EXCEPT !.pc = "done", !.resp = <<400, "Password is required to delete account">>]
  ELSE [pr EXCEPT !.pc = "findUser"]

PutRole_entry(pr) ==
  IF ~isManager(pr.role)
  THEN [pr EXCEPT !.pc = "done", !.resp = <<403, "Forbidden - manager only">>]
  ELSE IF pr.newRole \notin {"user", "admin", "manager"}
  THEN [pr EXCEPT !.pc = "done", !.resp = <<400, "Invalid role">>]
  ELSE IF pr.newRole # "manager" THEN [pr EXCEPT !.pc = "findTarget"]
  ELSE [pr EXCEPT !.pc = "update"]

DeleteUser_entry(pr) ==
  IF ~isAdmin(pr.role)
  THEN [pr EXCEPT !.pc = "done", !.resp = <<403, "Forbidden - admin/manager only">>]
  ELSE [pr EXCEPT !.pc = "findTarget"]

Verify_entry(pr) ==
  IF ~isAdmin(pr.role)
  THEN [pr EXCEPT !.pc = "done", !.resp = <<403, "Forbidden - admin/manager only">>]
  ELSE [pr EXCEPT !.pc = "findTarget"]

\* newPassword.length < 8
ResetPassword_entry(pr) ==
  IF ~isAdmin(pr.role)
  THEN [pr EXCEPT !.pc = "done", !.resp = <<403, "Forbidden - admin/manager only">>]
  ELSE IF pr.newPassword \in {"none", "short"}
  THEN [pr EXCEPT !.pc = "done",
                  !.resp = <<400, "New password must be at least 8 characters">>]
  ELSE [pr EXCEPT !.pc = "findTarget"]

Deactivate_entry(pr) ==
  IF ~isAdmin(pr.role)
  THEN [pr EXCEPT !.pc = "done", !.resp = <<403, "Forbidden - admin/manager only">>]
  ELSE [pr EXCEPT !.pc = "findTarget"]

Ban_entry(pr) ==
  IF ~isAdmin(pr.role)
  THEN [pr EXCEPT !.pc = "done", !.resp = <<403, "Forbidden - admin/manager only">>]
  ELSE [pr EXCEPT !.pc = "findTarget"]

Unban_entry(pr) ==
  IF ~isAdmin(pr.role)
  THEN [pr EXCEPT !.pc = "done", !.resp = <<403, "Forbidden - admin/manager only">>]
  ELSE [pr EXCEPT !.pc = "findTarget"]

\* requireVerified: !req.user?.isVerified
requireVerified(pr) == pr.isVerified

GetThread_entry(pr) ==
  IF ~requireVerified(pr)
  THEN [pr EXCEPT !.pc = "done", !.resp = <<403, "NOT_VERIFIED">>]
  ELSE [pr EXCEPT !.pc = "findRequest"]

\* !content || content.trim().length === 0
SendMessage_entry(pr) ==
  IF ~requireVerified(pr)
  THEN [pr EXCEPT !.pc = "done", !.resp = <<403, "NOT_VERIFIED">>]
  ELSE IF pr.content \in {"", " "}
  THEN [pr EXCEPT !.pc = "done", !.resp = <<400, "Message content is required">>]
  ELSE [pr EXCEPT !.pc = "findRequest"]

\* upload.single(...): the file filter passes image files only, its error
\* goes to the error handling middleware
PutProfile_entry(pr) ==
  IF pr.file = "other"
  THEN [pr EXCEPT !.pc = "done", !.resp = <<500, "Only image files are allowed!">>]
  ELSE [pr EXCEPT !.pc = "findUser"]

ProfileImage_entry(pr) ==
  IF pr.file = "other"
  THEN [pr EXCEPT !.pc = "done", !.resp = <<500, "Only image files are allowed!">>]
  ELSE IF pr.file = "none"
  THEN [pr EXCEPT !.pc = "done", !.resp = <<400, "No image file provided">>]
  ELSE [pr EXCEPT !.pc = "upload"]

\* routes/Items.js: the routes behind authenticateToken
Items_entry(pr) ==
  IF pr.op = "MyItems" THEN [pr EXCEPT !.pc = "find"]
  ELSE IF pr.target = 0
  THEN [pr EXCEPT !.pc = "done", !.resp = <<400, "Invalid item ID format">>]
  ELSE [pr EXCEPT !.pc = "findItem"]

DeactivateItem_entry(pr) ==
  IF ~isAdmin(pr.role)
  THEN [pr EXCEPT !.pc = "done", !.resp = <<403, "Forbidden - admin/manager only">>]
  ELSE [pr EXCEPT !.pc = "findItem"]

\* routes/reports.js POST /: the checks of the body
CreateReport_entry(pr) ==
  IF pr.reason = ""
  THEN [pr EXCEPT !.pc = "done", !.resp = <<400, "Reason and description are required">>]
  ELSE IF pr.reportedItem = 0 /\ pr.reportedUser = 0
  THEN [pr EXCEPT !.pc = "done",
                  !.resp = <<400, "Either reportedItem or reportedUser must be provided">>]
  ELSE [pr EXCEPT !.pc = "save"]

\* routes/admin.js PUT /reports/:id/resolve: isAdmin, then the check of status
ResolveReport_entry(pr) ==
  IF ~isAdmin(pr.role)
  THEN [pr EXCEPT !.pc = "done", !.resp = <<403, "Forbidden - admin/manager only">>]
  ELSE IF pr.status \notin {"Resolved", "Dismissed"}
  THEN [pr EXCEPT !.pc = "done", !.resp = <<400, "Invalid status">>]
  ELSE [pr EXCEPT !.pc = "findReport"]

\* routes/admin.js: GET /stats, /users, /items, /reports and
\* DELETE /reports/:id behind auth and isAdmin
AdminRoute_entry(pr) ==
  IF ~isAdmin(pr.role)
  THEN [pr EXCEPT !.pc = "done", !.resp = <<403, "Forbidden - admin/manager only">>]
  ELSE [pr EXCEPT !.pc = IF pr.op = "AdminRead" THEN "find" ELSE "findReport"]

\* next(): the route's handler chain runs with req.user.role set
Entry(pr) ==
  CASE pr.op = "CreateReview" -> CreateReview_entry(pr)
    [] pr.op = "DeleteReview" -> DeleteReview_entry(pr)
    [] pr.op = "DeleteAccount" -> DeleteAccount_entry(pr)
    [] pr.op = "PutRole" -> PutRole_entry(pr)
    [] pr.op = "DeleteUser" -> DeleteUser_entry(pr)
    [] pr.op = "Verify" -> Verify_entry(pr)
    [] pr.op = "ResetPassword" -> ResetPassword_entry(pr)
    [] pr.op = "Deactivate" -> Deactivate_entry(pr)
    [] pr.op = "Ban" -> Ban_entry(pr)
    [] pr.op = "Unban" -> Unban_entry(pr)
    [] pr.op = "GetThread" -> GetThread_entry(pr)
    [] pr.op = "SendMessage" -> SendMessage_entry(pr)
    [] pr.op = "PutProfile" -> PutProfile_entry(pr)
    [] pr.op = "ProfileImage" -> ProfileImage_entry(pr)
    [] pr.op \in {"MyItems", "UpdateItem", "DeleteItem"} -> Items_entry(pr)
    [] pr.op = "DeactivateItem" -> DeactivateItem_entry(pr)
    [] pr.op = "CreateReport" -> CreateReport_entry(pr)
    [] pr.op = "ResolveReport" -> ResolveReport_entry(pr)
    [] pr.op \in {"AdminRead", "DeleteReport"} -> AdminRoute_entry(pr)
    [] pr.op = "Conversations" -> [pr EXCEPT !.pc = "findRentals"]

\* req.user = decoded: the claims of the token
reqUserDecoded(decodedRole, user) ==
  [role |-> decodedRole, isVerified |-> user.isVerified]

\* req.user = { ...decoded, role: user.role, isVerified: user.isVerified }
reqUser(decodedRole, user) == [role |-> user.role, isVerified |-> user.isVerified]

authenticateToken(p) ==
  /\ procs[p].pc = "auth"
  /\ LET den == AuthDenial(procs[p].actor)
         ru  == reqUser(users[procs[p].actor].tokenRole, users[procs[p].actor])
     IN procs' = IF den # <<0, "">>
                 THEN Done(p, den[1], den[2])
                 ELSE [procs EXCEPT ![p] =
                         Entry([procs[p] EXCEPT
                                  !.role = ru.role,
                                  !.isVerified = ru.isVerified])]
  /\ UNCHANGED <<users, items, requests, reviews, nextId, now, bk, messages, reports, blobs, db>>

(***************************************************************************)
(* routes/Reviews.js: POST /                                               *)
(***************************************************************************)
StartCreateReview(p, a, r, t, g) ==
  /\ procs[p].pc = "idle"
  /\ procs' = [procs EXCEPT ![p] =
                 [IdleProc EXCEPT !.op = "CreateReview", !.pc = "auth", !.actor = a,
                                  !.req = r, !.target = t, !.rating = g,
                                  !.dup = HasReviewed(a, r)]]
  /\ UNCHANGED <<users, items, requests, reviews, nextId, now, bk, messages, reports, blobs, db>>

\* the second comparison never fails
isInvolvedSelfCompare(lr, u) == lr.borrower = u \/ lr.lender = lr.lender

\* lendingRequest.borrower.toString() === req.userId ||
\* lendingRequest.lender.toString() === req.userId
isInvolved(lr, u) == lr.borrower = u \/ lr.lender = u

\* LendingRequest.findById, then the status and involvement checks
CreateReview_findRequest(p) ==
  /\ procs[p].op = "CreateReview" /\ procs[p].pc = "findRequest"
  /\ LET lr == requests[procs[p].req]
     IN procs' =
          IF lr = NoReq THEN Done(p, 404, "Lending request not found")
          ELSE IF lr.status # "Completed"
               THEN Done(p, 400, "Can only review completed rentals")
          ELSE IF ~isInvolved(lr, procs[p].actor)
               THEN Done(p, 403, "Not authorized to review this rental")
          ELSE Goto(p, "findExisting")
  /\ UNCHANGED <<users, items, requests, reviews, nextId, now, bk, messages, reports, blobs, db>>

\* the query matches the reviewee field instead of the reviewer field
ExistingReviewByReviewee(a, r) ==
  \E rv \in reviews : rv.lendingRequest = r /\ rv.reviewee = a

\* Review.findOne({ lendingRequest: lendingRequestId, reviewer: req.userId })
ExistingReview(a, r) ==
  \E rv \in reviews : rv.lendingRequest = r /\ rv.reviewer = a

CreateReview_findExisting(p) ==
  /\ procs[p].op = "CreateReview" /\ procs[p].pc = "findExisting"
  /\ procs' =
       IF ExistingReview(procs[p].actor, procs[p].req)
       THEN Done(p, 400, "You have already reviewed this rental")
       ELSE Goto(p, "save")
  /\ UNCHANGED <<users, items, requests, reviews, nextId, now, bk, messages, reports, blobs, db>>

\* review.save()
CreateReview_save(p) ==
  /\ procs[p].op = "CreateReview" /\ procs[p].pc = "save"
  /\ nextId <= MaxReviews
  /\ reviews' = reviews \cup
       {[id |-> nextId, lendingRequest |-> procs[p].req, reviewer |-> procs[p].actor,
         reviewee |-> procs[p].target, rating |-> procs[p].rating]}
  /\ nextId' = nextId + 1
  /\ procs' = Goto(p, "findReviews")
  /\ UNCHANGED <<users, items, requests, now, bk, messages, reports, blobs, db>>

\* Review.find({ reviewee: revieweeId }) and the reduce over the result
CreateReview_findReviews(p) ==
  /\ procs[p].op = "CreateReview" /\ procs[p].pc = "findReviews"
  /\ procs' = [procs EXCEPT ![p].pc = "updateUser",
                            ![p].sum = SumRatings(ReviewsOf(procs[p].target)),
                            ![p].cnt = Cardinality(ReviewsOf(procs[p].target))]
  /\ UNCHANGED <<users, items, requests, reviews, nextId, now, bk, messages, reports, blobs, db>>

\* User.findByIdAndUpdate(revieweeId, { rating, reviewCount }); an empty
\* result set makes the average NaN, which the update refuses to cast
CreateReview_updateUser(p) ==
  /\ procs[p].op = "CreateReview" /\ procs[p].pc = "updateUser"
  /\ IF procs[p].cnt = 0
     THEN /\ procs' = Done(p, 500, "Server error")
          /\ users' = users
     ELSE /\ procs' = Goto(p, "notify")
          /\ users' = IF UserExists(procs[p].target)
                      THEN [users EXCEPT ![procs[p].target].rating =
                                            RoundedAvg(procs[p].sum, procs[p].cnt),
                                         ![procs[p].target].reviewCount = procs[p].cnt]
                      ELSE users
  /\ UNCHANGED <<items, requests, reviews, nextId, now, bk, messages, reports, blobs, db>>

\* a failed post is sent a second time
sendSlackNotificationRetry(outcome) ==
  IF outcome = "unconfigured" THEN 0 ELSE IF outcome = "failed" THEN 2 ELSE 1

\* utils/slack.js: the number of posts to the webhook; without a webhook
\* URL nothing is sent, and an error of the post is logged, not thrown
sendSlackNotification(outcome) == IF outcome = "unconfigured" THEN 0 ELSE 1

\* review.populate(...), then try { User.findById; sendSlackNotification }
\* catch { log }, then res.status(201)
CreateReview_notify(p, outcome) ==
  /\ procs[p].op = "CreateReview" /\ procs[p].pc = "notify"
  /\ procs' = [procs EXCEPT ![p].pc = "done",
                            ![p].slack = outcome,
                            ![p].posts = sendSlackNotification(outcome),
                            ![p].resp = <<201, "Review submitted successfully">>]
  /\ UNCHANGED <<users, items, requests, reviews, messages, nextId, now, bk, reports, blobs, db>>

(***************************************************************************)
(* routes/admin.js: DELETE /reviews/:id                                    *)
(***************************************************************************)
StartDeleteReview(p, a, id) ==
  /\ procs[p].pc = "idle"
  /\ procs' = [procs EXCEPT ![p] =
                 [IdleProc EXCEPT !.op = "DeleteReview", !.pc = "auth", !.actor = a,
                                  !.req = id]]
  /\ UNCHANGED <<users, items, requests, reviews, nextId, now, bk, messages, reports, blobs, db>>

\* Review.findById(req.params.id)
DeleteReview_findReview(p) ==
  /\ procs[p].op = "DeleteReview" /\ procs[p].pc = "findReview"
  /\ procs' =
       IF \E rv \in reviews : rv.id = procs[p].req
       THEN [procs EXCEPT ![p].pc = "deleteOne",
                          ![p].target = (CHOOSE rv \in reviews : rv.id = procs[p].req).reviewee]
       ELSE Done(p, 404, "Review not found")
  /\ UNCHANGED <<users, items, requests, reviews, nextId, now, bk, messages, reports, blobs, db>>

\* review.deleteOne()
DeleteReview_deleteOne(p) ==
  /\ procs[p].op = "DeleteReview" /\ procs[p].pc = "deleteOne"
  /\ reviews' = {rv \in reviews : rv.id # procs[p].req}
  /\ procs' = Goto(p, "findReviews")
  /\ UNCHANGED <<users, items, requests, nextId, now, bk, messages, reports, blobs, db>>

\* Review.find({ reviewee: revieweeId })
DeleteReview_findReviews(p) ==
  /\ procs[p].op = "DeleteReview" /\ procs[p].pc = "findReviews"
  /\ procs' = [procs EXCEPT ![p].pc = "updateUser",
                            ![p].sum = SumRatings(ReviewsOf(procs[p].target)),
                            ![p].cnt = Cardinality(ReviewsOf(procs[p].target))]
  /\ UNCHANGED <<users, items, requests, reviews, nextId, now, bk, messages, reports, blobs, db>>

\* User.findByIdAndUpdate(revieweeId, { rating: avgRating, reviewCount })
DeleteReview_updateUser(p) ==
  /\ procs[p].op = "DeleteReview" /\ procs[p].pc = "updateUser"
  /\ users' = IF UserExists(procs[p].target)
              THEN [users EXCEPT ![procs[p].target].rating =
                                    PlainAvg(procs[p].sum, procs[p].cnt),
                                 ![procs[p].target].reviewCount = procs[p].cnt]
              ELSE users
  /\ procs' = Done(p, 200, "success")
  /\ UNCHANGED <<items, requests, reviews, nextId, now, bk, messages, reports, blobs, db>>

(***************************************************************************)
(* routes/Users.js: POST /me/delete                                        *)
(***************************************************************************)
StartDeleteAccount(p, a, pw) ==
  /\ procs[p].pc = "idle"
  /\ procs' = [procs EXCEPT ![p] =
                 [IdleProc EXCEPT !.op = "DeleteAccount", !.pc = "auth", !.actor = a,
                                  !.pw = pw]]
  /\ UNCHANGED <<users, items, requests, reviews, nextId, now, bk, messages, reports, blobs, db>>

\* User.findById(req.userId), then user.comparePassword(password)
DeleteAccount_findUser(p) ==
  /\ procs[p].op = "DeleteAccount" /\ procs[p].pc = "findUser"
  /\ procs' =
       IF ~UserExists(procs[p].actor) THEN Done(p, 404, "User not found")
       ELSE IF procs[p].pw # users[procs[p].actor].password
            THEN Done(p, 401, "Incorrect password")
       ELSE [procs EXCEPT ![p].pc = "cascade", ![p].todo = {"items", "requests", "reviews"}]
  /\ UNCHANGED <<users, items, requests, reviews, nextId, now, bk, messages, reports, blobs, db>>

\* one of the deleteMany calls of the Promise.all, in any order
DeleteAccount_cascade(p, k) ==
  /\ procs[p].op = "DeleteAccount" /\ procs[p].pc = "cascade"
  /\ k \in procs[p].todo
  /\ LET u == procs[p].actor
     IN /\ items' = IF k = "items"
                    THEN [i \in ItemIds |-> IF items[i].owner = u THEN NoItem ELSE items[i]]
                    ELSE items
        /\ requests' = IF k = "requests"
                       THEN [r \in ReqIds |->
                               IF requests[r] # NoReq
                                  /\ (requests[r].borrower = u \/ requests[r].lender = u)
                               THEN NoReq ELSE requests[r]]
                       ELSE requests
        /\ reviews' = IF k = "reviews"
                      THEN {rv \in reviews : rv.reviewer # u /\ rv.reviewee # u}
                      ELSE reviews
  /\ procs' = [procs EXCEPT ![p].todo = procs[p].todo \ {k},
                            ![p].pc = IF procs[p].todo = {k} THEN "deleteUser" ELSE "cascade"]
  /\ UNCHANGED <<users, nextId, now, bk, messages, reports, blobs, db>>

\* user.deleteOne()
DeleteAccount_deleteUser(p) ==
  /\ procs[p].op = "DeleteAccount" /\ procs[p].pc = "deleteUser"
  /\ users' = [users EXCEPT ![procs[p].actor] = NoUser]
  /\ procs' = Done(p, 200, "Account deleted")
  /\ UNCHANGED <<items, requests, reviews, nextId, now, bk, messages, reports, blobs, db>>

(***************************************************************************)
(* routes/admin.js: PUT /users/:id/role                                    *)
(***************************************************************************)
StartPutRole(p, a, t, nr) ==
  /\ procs[p].pc = "idle"
  /\ procs' = [procs EXCEPT ![p] =
                 [IdleProc EXCEPT !.op = "PutRole", !.pc = "auth", !.actor = a,
                                  !.target = t, !.newRole = nr,
                                  !.mgr0 = ManagerCount, !.t0 = users[t],
                                  !.adm0 = Holders("admin")]]
  /\ UNCHANGED <<users, items, requests, reviews, nextId, now, bk, messages, reports, blobs, db>>

\* User.findById(req.params.id)
PutRole_findTarget(p) ==
  /\ procs[p].op = "PutRole" /\ procs[p].pc = "findTarget"
  /\ procs' = IF users[procs[p].target].role = "manager"
              THEN Goto(p, "countManagers")
              ELSE Goto(p, "update")
  /\ UNCHANGED <<users, items, requests, reviews, nextId, now, bk, messages, reports, blobs, db>>

\* User.countDocuments({ role: 'manager' })
PutRole_countManagers(p) ==
  /\ procs[p].op = "PutRole" /\ procs[p].pc = "countManagers"
  /\ procs' = IF IsLastHolder(Cardinality({u \in UserIds : users[u].role = "manager"}))
              THEN Done(p, 400, "Cannot demote the last manager")
              ELSE Goto(p, "update")
  /\ UNCHANGED <<users, items, requests, reviews, nextId, now, bk, messages, reports, blobs, db>>

\* User.findByIdAndUpdate(req.params.id, { role })
PutRole_update(p) ==
  /\ procs[p].op = "PutRole" /\ procs[p].pc = "update"
  /\ IF UserExists(procs[p].target)
     THEN /\ users' = [users EXCEPT ![procs[p].target].role = procs[p].newRole]
          /\ procs' = Done(p, 200, "success")
     ELSE /\ users' = users
          /\ procs' = Done(p, 404, "User not found")
  /\ UNCHANGED <<items, requests, reviews, nextId, now, bk, messages, reports, blobs, db>>

(***************************************************************************)
(* routes/admin.js: DELETE /users/:id                                      *)
(***************************************************************************)
StartDeleteUser(p, a, t) ==
  /\ procs[p].pc = "idle"
  /\ procs' = [procs EXCEPT ![p] =
                 [IdleProc EXCEPT !.op = "DeleteUser", !.pc = "auth", !.actor = a,
                                  !.target = t,
                                  !.mgr0 = ManagerCount, !.t0 = users[t],
                                  !.adm0 = Holders("admin")]]
  /\ UNCHANGED <<users, items, requests, reviews, nextId, now, bk, messages, reports, blobs, db>>

\* User.findById(req.params.id) and the admin-on-admin/manager rule
DeleteUser_findTarget(p) ==
  /\ procs[p].op = "DeleteUser" /\ procs[p].pc = "findTarget"
  /\ LET t == users[procs[p].target]
     IN procs' =
          IF t = NoUser THEN Done(p, 404, "User not found")
          ELSE IF AdminOnPrivileged(procs[p].role, t.role)
               THEN Done(p, 403, "Admins cannot delete admins/managers")
          ELSE [procs EXCEPT ![p].trole = t.role,
                             ![p].pc = IF t.role = "admin" THEN "countAdmins"
                                       ELSE IF t.role = "manager" THEN "countManagers"
                                       ELSE "deactivateItems"]
  /\ UNCHANGED <<users, items, requests, reviews, nextId, now, bk, messages, reports, blobs, db>>

\* User.countDocuments({ role: 'admin' })
DeleteUser_countAdmins(p) ==
  /\ procs[p].op = "DeleteUser" /\ procs[p].pc = "countAdmins"
  /\ procs' = IF IsLastHolder(Cardinality({u \in UserIds : users[u].role = "admin"}))
              THEN Done(p, 400, "Cannot delete the last admin")
              ELSE Goto(p, "deactivateItems")
  /\ UNCHANGED <<users, items, requests, reviews, nextId, now, bk, messages, reports, blobs, db>>

\* User.countDocuments({ role: 'manager' })
DeleteUser_countManagers(p) ==
  /\ procs[p].op = "DeleteUser" /\ procs[p].pc = "countManagers"
  /\ procs' = IF IsLastHolder(Cardinality({u \in UserIds : users[u].role = "manager"}))
              THEN Done(p, 400, "Cannot delete the last manager")
              ELSE Goto(p, "deactivateItems")
  /\ UNCHANGED <<users, items, requests, reviews, nextId, now, bk, messages, reports, blobs, db>>

\* Item.updateMany({ owner: target._id }, { $set: { isActive: false } })
DeleteUser_deactivateItems(p) ==
  /\ procs[p].op = "DeleteUser" /\ procs[p].pc = "deactivateItems"
  /\ items' = [i \in ItemIds |-> IF items[i] # NoItem /\ items[i].owner = procs[p].target
                                 THEN [items[i] EXCEPT !.isActive = FALSE]
                                 ELSE items[i]]
  /\ procs' = Goto(p, "deleteOne")
  /\ UNCHANGED <<users, requests, reviews, nextId, now, bk, messages, reports, blobs, db>>

\* target.deleteOne()
DeleteUser_deleteOne(p) ==
  /\ procs[p].op = "DeleteUser" /\ procs[p].pc = "deleteOne"
  /\ users' = [users EXCEPT ![procs[p].target] = NoUser]
  /\ procs' = Done(p, 200, "success")
  /\ UNCHANGED <<items, requests, reviews, nextId, now, bk, messages, reports, blobs, db>>

(***************************************************************************)
(* routes/admin.js: PUT /users/:id/verify, /reset-password, /deactivate,   *)
(* /ban, /unban                                                            *)
(***************************************************************************)
\* history only: what the store held when the request was made
StartModeration(p, op, a, t, np) ==
  /\ procs[p].pc = "idle"
  /\ procs' = [procs EXCEPT ![p] =
                 [IdleProc EXCEPT !.op = op, !.pc = "auth", !.actor = a,
                                  !.target = t, !.newPassword = np,
                                  !.t0 = users[t],
                                  !.mgr0 = Holders("manager"),
                                  !.amgr0 = ActiveHolders("manager"),
                                  !.adm0 = Holders("admin"),
                                  !.aadm0 = ActiveHolders("admin")]]
  /\ UNCHANGED <<users, items, requests, reviews, nextId, now, bk, messages, reports, blobs, db>>

StartVerify(p, a, t) == StartModeration(p, "Verify", a, t, "none")
StartResetPassword(p, a, t, np) == StartModeration(p, "ResetPassword", a, t, np)
StartDeactivate(p, a, t) == StartModeration(p, "Deactivate", a, t, "none")
StartBan(p, a, t) == StartModeration(p, "Ban", a, t, "none")
\* const { reason, until } = req.body, until a day
StartBanUntil(p, a, t, until) ==
  /\ procs[p].pc = "idle"
  /\ procs' = [procs EXCEPT ![p] =
                 [IdleProc EXCEPT !.op = "Ban", !.pc = "auth", !.actor = a,
                                  !.target = t, !.until = until,
                                  !.t0 = users[t],
                                  !.mgr0 = Holders("manager"),
                                  !.amgr0 = ActiveHolders("manager"),
                                  !.adm0 = Holders("admin"),
                                  !.aadm0 = ActiveHolders("admin")]]
  /\ UNCHANGED <<users, items, requests, reviews, nextId, now, bk, messages, reports, blobs, db>>
StartUnban(p, a, t) == StartModeration(p, "Unban", a, t, "none")

\* the document of the target is gone when target.save() runs
SaveTarget(p, doc) ==
  IF UserExists(procs[p].target)
  THEN /\ users' = [users EXCEPT ![procs[p].target] = doc]
       /\ procs' = Done(p, 200, "success")
  ELSE /\ users' = users
       /\ procs' = Done(p, 500, "Server error")

\* User.findById(req.params.id) and the admin-on-admin/manager rule
Verify_findTarget(p) ==
  /\ procs[p].op = "Verify" /\ procs[p].pc = "findTarget"
  /\ LET t == users[procs[p].target]
     IN procs' =
          IF t = NoUser THEN Done(p, 404, "User not found")
          ELSE IF AdminOnPrivileged(procs[p].role, t.role)
               THEN Done(p, 403, "Admins cannot verify admins/managers")
          ELSE Goto(p, "save")
  /\ UNCHANGED <<users, items, requests, reviews, nextId, now, bk, messages, reports, blobs, db>>

\* target.isVerified = true; target.save()
Verify_save(p) ==
  /\ procs[p].op = "Verify" /\ procs[p].pc = "save"
  /\ SaveTarget(p, [users[procs[p].target] EXCEPT !.isVerified = TRUE])
  /\ UNCHANGED <<items, requests, reviews, nextId, now, bk, messages, reports, blobs, db>>

ResetPassword_findTarget(p) ==
  /\ procs[p].op = "ResetPassword" /\ procs[p].pc = "findTarget"
  /\ LET t == users[procs[p].target]
     IN procs' =
          IF t = NoUser THEN Done(p, 404, "User not found")
          ELSE IF AdminOnPrivileged(procs[p].role, t.role)
               THEN Done(p, 403, "Admins cannot reset passwords for admins/managers")
          ELSE Goto(p, "save")
  /\ UNCHANGED <<users, items, requests, reviews, nextId, now, bk, messages, reports, blobs, db>>

\* target.password = newPassword; target.save()
ResetPassword_save(p) ==
  /\ procs[p].op = "ResetPassword" /\ procs[p].pc = "save"
  /\ SaveTarget(p, [users[procs[p].target] EXCEPT !.password = procs[p].newPassword])
  /\ UNCHANGED <<items, requests, reviews, nextId, now, bk, messages, reports, blobs, db>>

Deactivate_findTarget(p) ==
  /\ procs[p].op = "Deactivate" /\ procs[p].pc = "findTarget"
  /\ LET t == users[procs[p].target]
     IN procs' =
          IF t = NoUser THEN Done(p, 404, "User not found")
          ELSE IF AdminOnPrivileged(procs[p].role, t.role)
               THEN Done(p, 403, "Admins cannot deactivate admins/managers")
          ELSE IF t.role = "admin" THEN Goto(p, "countAdmins")
          ELSE Goto(p, "save")
  /\ UNCHANGED <<users, items, requests, reviews, nextId, now, bk, messages, reports, blobs, db>>

\* the count takes every admin, active or not
CountAllAdmins == Cardinality({u \in UserIds : users[u].role = "admin"})

\* User.countDocuments({ role: 'admin', isActive: true })
CountActiveAdmins ==
  Cardinality({u \in UserIds : users[u].role = "admin" /\ users[u].isActive})

Deactivate_countAdmins(p) ==
  /\ procs[p].op = "Deactivate" /\ procs[p].pc = "countAdmins"
  /\ procs' = IF CountActiveAdmins <= 1
              THEN Done(p, 400, "Cannot deactivate the last active admin")
              ELSE Goto(p, "save")
  /\ UNCHANGED <<users, items, requests, reviews, nextId, now, bk, messages, reports, blobs, db>>

\* target.isActive = false; target.save()
Deactivate_save(p) ==
  /\ procs[p].op = "Deactivate" /\ procs[p].pc = "save"
  /\ SaveTarget(p, [users[procs[p].target] EXCEPT !.isActive = FALSE])
  /\ UNCHANGED <<items, requests, reviews, nextId, now, bk, messages, reports, blobs, db>>

Ban_findTarget(p) ==
  /\ procs[p].op = "Ban" /\ procs[p].pc = "findTarget"
  /\ LET t == users[procs[p].target]
     IN procs' =
          IF t = NoUser THEN Done(p, 404, "User not found")
          ELSE IF AdminOnPrivileged(procs[p].role, t.role)
               THEN Done(p, 403, "Admins cannot ban admins/managers")
          ELSE IF t.role = "admin" THEN Goto(p, "countAdmins")
          ELSE Goto(p, "save")
  /\ UNCHANGED <<users, items, requests, reviews, nextId, now, bk, messages, reports, blobs, db>>

Ban_countAdmins(p) ==
  /\ procs[p].op = "Ban" /\ procs[p].pc = "countAdmins"
  /\ procs' = IF CountActiveAdmins <= 1
              THEN Done(p, 400, "Cannot ban the last active admin")
              ELSE Goto(p, "save")
  /\ UNCHANGED <<users, items, requests, reviews, nextId, now, bk, messages, reports, blobs, db>>

\* target.isBanned = true; target.bannedUntil = until ? new Date(until) : null;
\* target.isActive = false; target.save()
Ban_save(p) ==
  /\ procs[p].op = "Ban" /\ procs[p].pc = "save"
  /\ SaveTarget(p, [users[procs[p].target] EXCEPT !.isBanned = TRUE,
                                                   !.bannedUntil = procs[p].until,
                                                   !.isActive = FALSE])
  /\ UNCHANGED <<items, requests, reviews, nextId, now, bk, messages, reports, blobs, db>>

Unban_findTarget(p) ==
  /\ procs[p].op = "Unban" /\ procs[p].pc = "findTarget"
  /\ LET t == users[procs[p].target]
     IN procs' =
          IF t = NoUser THEN Done(p, 404, "User not found")
          ELSE IF AdminOnPrivileged(procs[p].role, t.role)
               THEN Done(p, 403, "Admins cannot unban admins/managers")
          ELSE Goto(p, "save")
  /\ UNCHANGED <<users, items, requests, reviews, nextId, now, bk, messages, reports, blobs, db>>

\* target.isBanned = false; target.bannedUntil = null; target.isActive = true;
\* target.save()
Unban_save(p) ==
  /\ procs[p].op = "Unban" /\ procs[p].pc = "save"
  /\ SaveTarget(p, [users[procs[p].target] EXCEPT !.isBanned = FALSE,
                                                   !.bannedUntil = 0,
                                                   !.isActive = TRUE])
  /\ UNCHANGED <<items, requests, reviews, nextId, now, bk, messages, reports, blobs, db>>

(***************************************************************************)
(* routes/auth.js: POST /login                                             *)
(***************************************************************************)
\* const { email, password } = req.body; the email is that of user a
StartLogin(p, a, pw) ==
  /\ procs[p].pc = "idle"
  /\ procs' = [procs EXCEPT ![p] =
                 [IdleProc EXCEPT !.op = "Login", !.pc = "findUser", !.actor = a,
                                  !.pw = pw]]
  /\ UNCHANGED <<users, items, requests, reviews, nextId, now, bk, messages, reports, blobs, db>>

\* User.findOne({ email })
Login_findUser(p) ==
  /\ procs[p].op = "Login" /\ procs[p].pc = "findUser"
  /\ procs' = IF ~UserExists(procs[p].actor)
              THEN Done(p, 401, "Invalid credentials")
              ELSE [procs EXCEPT ![p].pc = "comparePassword",
                                 ![p].t0 = users[procs[p].actor]]
  /\ UNCHANGED <<users, items, requests, reviews, nextId, now, bk, messages, reports, blobs, db>>

\* until ? until > now : true
stillBanned(user, today) ==
  IF user.bannedUntil # 0 THEN user.bannedUntil > today ELSE TRUE

\* user.comparePassword(password), then the checks of isActive and isBanned
Login_comparePassword(p) ==
  /\ procs[p].op = "Login" /\ procs[p].pc = "comparePassword"
  /\ LET user == procs[p].t0
     IN procs' =
          IF procs[p].pw # user.password THEN Done(p, 401, "Invalid credentials")
          ELSE IF ~user.isActive THEN Done(p, 403, "ACCOUNT_DEACTIVATED")
          ELSE IF user.isBanned /\ stillBanned(user, now)
               THEN Done(p, 403, "ACCOUNT_BANNED")
          ELSE Goto(p, "save")
  /\ UNCHANGED <<users, items, requests, reviews, nextId, now, bk, messages, reports, blobs, db>>

\* user.lastActive = Date.now(); user.save(); jwt.sign({ ..., role: user.role })
Login_save(p) ==
  /\ procs[p].op = "Login" /\ procs[p].pc = "save"
  /\ IF UserExists(procs[p].actor)
     THEN /\ users' = [users EXCEPT ![procs[p].actor] =
                         [procs[p].t0 EXCEPT !.lastActive = now,
                                             !.tokenRole = procs[p].t0.role]]
          /\ procs' = Done(p, 200, "Login successful")
     ELSE /\ users' = users
          /\ procs' = Done(p, 500, "Server error")
  /\ UNCHANGED <<items, requests, reviews, nextId, now, bk, messages, reports, blobs, db>>

(***************************************************************************)
(* routes/Messages.js: GET /lending/:lendingId, POST /                     *)
(***************************************************************************)
\* the comparison never matches the caller
NotInvolvedSelfCompare(lr, u) == lr.borrower # lr.borrower /\ lr.lender # u

\* lendingRequest.borrower.toString() !== req.userId &&
\* lendingRequest.lender.toString() !== req.userId
NotInvolved(lr, u) == lr.borrower # u /\ lr.lender # u

StartGetThread(p, a, r) ==
  /\ procs[p].pc = "idle"
  /\ procs' = [procs EXCEPT ![p] =
                 [IdleProc EXCEPT !.op = "GetThread", !.pc = "auth", !.actor = a,
                                  !.req = r]]
  /\ UNCHANGED <<users, items, requests, reviews, messages, nextId, now, bk, reports, blobs, db>>

\* LendingRequest.findById(req.params.lendingId) and the involvement check
GetThread_findRequest(p) ==
  /\ procs[p].op = "GetThread" /\ procs[p].pc = "findRequest"
  /\ LET lr == requests[procs[p].req]
     IN procs' =
          IF lr = NoReq THEN Done(p, 404, "Lending request not found")
          ELSE IF NotInvolved(lr, procs[p].actor)
               THEN Done(p, 403, "Not authorized to view these messages")
          ELSE Goto(p, "findMessages")
  /\ UNCHANGED <<users, items, requests, reviews, messages, nextId, now, bk, reports, blobs, db>>

\* Message.find({ lendingRequest: req.params.lendingId })
GetThread_findMessages(p) ==
  /\ procs[p].op = "GetThread" /\ procs[p].pc = "findMessages"
  /\ procs' = [procs EXCEPT ![p].pc = "markRead",
                            ![p].found = {m \in messages : m.lendingRequest = procs[p].req}]
  /\ UNCHANGED <<users, items, requests, reviews, messages, nextId, now, bk, reports, blobs, db>>

\* the filter leaves out the sender
UnreadInThread(m, r, u) == m.lendingRequest = r /\ ~m.isRead

\* { lendingRequest: req.params.lendingId, sender: { $ne: req.userId },
\* isRead: false }
UnreadFromOthers(m, r, u) == m.lendingRequest = r /\ m.sender # u /\ ~m.isRead

\* Message.updateMany(filter, { isRead: true }), then res.json(messages)
GetThread_markRead(p) ==
  /\ procs[p].op = "GetThread" /\ procs[p].pc = "markRead"
  /\ messages' = {IF UnreadFromOthers(m, procs[p].req, procs[p].actor)
                  THEN [m EXCEPT !.isRead = TRUE] ELSE m : m \in messages}
  /\ procs' = Done(p, 200, "messages")
  /\ UNCHANGED <<users, items, requests, reviews, nextId, now, bk, reports, blobs, db>>

StartSendMessage(p, a, r, c) ==
  /\ procs[p].pc = "idle"
  /\ procs' = [procs EXCEPT ![p] =
                 [IdleProc EXCEPT !.op = "SendMessage", !.pc = "auth", !.actor = a,
                                  !.req = r, !.content = c]]
  /\ UNCHANGED <<users, items, requests, reviews, messages, nextId, now, bk, reports, blobs, db>>

\* LendingRequest.findById(lendingRequestId) and the involvement check
SendMessage_findRequest(p) ==
  /\ procs[p].op = "SendMessage" /\ procs[p].pc = "findRequest"
  /\ LET lr == requests[procs[p].req]
     IN procs' =
          IF lr = NoReq THEN Done(p, 404, "Lending request not found")
          ELSE IF NotInvolved(lr, procs[p].actor)
               THEN Done(p, 403, "Not authorized to send messages")
          ELSE Goto(p, "save")
  /\ UNCHANGED <<users, items, requests, reviews, messages, nextId, now, bk, reports, blobs, db>>

\* message.save(), message.populate('sender')
SendMessage_save(p) ==
  /\ procs[p].op = "SendMessage" /\ procs[p].pc = "save"
  /\ Cardinality(messages) < MaxMessages
  /\ messages' = messages \cup
       {[id |-> Cardinality(messages) + 1, lendingRequest |-> procs[p].req,
         sender |-> procs[p].actor, isRead |-> FALSE]}
  /\ procs' = Done(p, 201, "Message sent successfully")
  /\ UNCHANGED <<users, items, requests, reviews, nextId, now, bk, reports, blobs, db>>

\* routes/Messages.js: GET /conversations, behind authenticateToken only
StartConversations(p, a) ==
  /\ procs[p].pc = "idle"
  /\ procs' = [procs EXCEPT ![p] =
                 [IdleProc EXCEPT !.op = "Conversations", !.pc = "auth", !.actor = a]]
  /\ UNCHANGED <<users, items, requests, reviews, messages, nextId, now, bk, reports, blobs, db>>

\* LendingRequest.find({ $or: [{ borrower: userId }, { lender: userId }] })
Conversations_findRentals(p) ==
  /\ procs[p].op = "Conversations" /\ procs[p].pc = "findRentals"
  /\ procs' = [procs EXCEPT ![p].pc = "findLast",
                            ![p].todo = {r \in ReqIds :
                                           /\ requests[r] # NoReq
                                           /\ \/ requests[r].borrower = procs[p].actor
                                              \/ requests[r].lender = procs[p].actor}]
  /\ UNCHANGED <<users, items, requests, reviews, messages, nextId, now, bk, reports, blobs, db>>

\* Message.findOne({ lendingRequest: rental._id }).sort({ createdAt: -1 })
LastMessage(r) ==
  {m \in messages : /\ m.lendingRequest = r
                    /\ \A n \in messages : n.lendingRequest = r => n.id <= m.id}

\* the last message of every rental, content included, goes into the answer
Conversations_findLast(p) ==
  /\ procs[p].op = "Conversations" /\ procs[p].pc = "findLast"
  /\ procs' = [Done(p, 200, "conversations") EXCEPT
                 ![p].found = UNION {LastMessage(r) : r \in procs[p].todo}]
  /\ UNCHANGED <<users, items, requests, reviews, messages, nextId, now, bk, reports, blobs, db>>

(***************************************************************************)
(* routes/Users.js: PUT /profile; routes/Upload.js: POST /profile-image    *)
(***************************************************************************)
\* the promise resolves with the URL although the upload failed
uploadToCloudinaryAlwaysResolves(outcome, url) == url

\* utils/cloudinary.js: resolve(result.secure_url), or reject(error),
\* written 0
uploadToCloudinary(outcome, url) == IF outcome = "ok" THEN url ELSE 0

\* the upload stream ends: on success the blob store holds the image
Upload(p, outcome, next) ==
  /\ procs[p].pc = "upload"
  /\ Cardinality(blobs) < MaxUploads
  /\ LET url == Cardinality(blobs) + 1
         got == uploadToCloudinary(outcome, url)
     IN /\ blobs' = IF outcome = "ok" THEN blobs \cup {url} ELSE blobs
        /\ procs' = IF got = 0
                    THEN Done(p, 500, IF procs[p].op = "PutProfile" THEN "Server error"
                                      ELSE "Upload failed")
                    ELSE [procs EXCEPT ![p].pc = next, ![p].url = got]
  /\ UNCHANGED <<users, items, requests, reviews, messages, reports, db, nextId, now, bk>>

StartPutProfile(p, a, nm, f) ==
  /\ procs[p].pc = "idle"
  /\ procs' = [procs EXCEPT ![p] =
                 [IdleProc EXCEPT !.op = "PutProfile", !.pc = "auth", !.actor = a,
                                  !.newName = nm, !.file = f]]
  /\ UNCHANGED <<users, items, requests, reviews, messages, reports, blobs, db, nextId, now, bk>>

\* User.findById(req.userId)
PutProfile_findUser(p) ==
  /\ procs[p].op = "PutProfile" /\ procs[p].pc = "findUser"
  /\ procs' = IF ~UserExists(procs[p].actor) THEN Done(p, 404, "User not found")
              ELSE IF procs[p].file = "image" THEN Goto(p, "upload")
              ELSE Goto(p, "save")
  /\ UNCHANGED <<users, items, requests, reviews, messages, reports, blobs, db, nextId, now, bk>>

\* uploadToCloudinary(req.file.buffer, 'campus-crate/profiles')
PutProfile_upload(p, outcome) ==
  /\ procs[p].op = "PutProfile"
  /\ Upload(p, outcome, "save")

\* user.save() of the modified paths, then the refetch and the answer
PutProfile_save(p) ==
  /\ procs[p].op = "PutProfile" /\ procs[p].pc = "save"
  /\ LET a == procs[p].actor
     IN IF UserExists(a)
        THEN /\ users' = [users EXCEPT
                            ![a].name = IF procs[p].newName # "" THEN procs[p].newName
                                        ELSE users[a].name,
                            ![a].profileImage = IF procs[p].file = "image" THEN procs[p].url
                                                ELSE users[a].profileImage]
             /\ procs' = Done(p, 200, "Profile updated successfully")
        ELSE /\ users' = users
             /\ procs' = Done(p, 500, "Server error")
  /\ UNCHANGED <<items, requests, reviews, messages, reports, blobs, db, nextId, now, bk>>

StartProfileImage(p, a, f) ==
  /\ procs[p].pc = "idle"
  /\ procs' = [procs EXCEPT ![p] =
                 [IdleProc EXCEPT !.op = "ProfileImage", !.pc = "auth", !.actor = a,
                                  !.file = f]]
  /\ UNCHANGED <<users, items, requests, reviews, messages, reports, blobs, db, nextId, now, bk>>

\* uploadToCloudinary(req.file.buffer, 'campus-crate/profiles')
ProfileImage_upload(p, outcome) ==
  /\ procs[p].op = "ProfileImage"
  /\ Upload(p, outcome, "update")

\* User.findByIdAndUpdate(req.userId, { profileImage: imageUrl })
ProfileImage_update(p) ==
  /\ procs[p].op = "ProfileImage" /\ procs[p].pc = "update"
  /\ users' = IF UserExists(procs[p].actor)
              THEN [users EXCEPT ![procs[p].actor].profileImage = procs[p].url]
              ELSE users
  /\ procs' = Done(p, 200, "Profile image uploaded successfully")
  /\ UNCHANGED <<items, requests, reviews, messages, reports, blobs, db, nextId, now, bk>>

(***************************************************************************)
(* routes/Items.js, routes/admin.js: the catalogue                         *)
(***************************************************************************)
\* the soft delete flag is not looked at
ItemMissingOnly(it) == it = NoItem

\* !item || !item.isActive
ItemMissing(it) == it = NoItem \/ ~it.isActive

\* Item.findById(id); 0 is an id that is not an ObjectId
FindItem(i) == IF i \in ItemIds THEN items[i] ELSE NoItem

StartItems(p, op, a, i, u) ==
  /\ procs[p].pc = "idle"
  /\ procs' = [procs EXCEPT ![p] =
                 [IdleProc EXCEPT !.op = op, !.actor = a, !.target = i, !.content = u,
                                  !.pc = IF op \in {"ListItems", "UserItems"} THEN "find"
                                         ELSE IF op = "GetItem" THEN "findItem"
                                         ELSE "auth"]]
  /\ UNCHANGED <<users, items, requests, reviews, messages, reports, blobs, db, nextId, now, bk>>

\* GET /: Item.find({ isActive: true, ... })
ListItems_find(p) ==
  /\ procs[p].op = "ListItems" /\ procs[p].pc = "find"
  /\ procs' = [Done(p, 200, "items") EXCEPT
                 ![p].found = {i \in ItemIds : items[i].isActive = TRUE}]
  /\ UNCHANGED <<users, items, requests, reviews, messages, reports, blobs, db, nextId, now, bk>>

\* GET /user/my-items: Item.find({ owner: req.userId, isActive: true })
MyItems_find(p) ==
  /\ procs[p].op = "MyItems" /\ procs[p].pc = "find"
  /\ procs' = [Done(p, 200, "items") EXCEPT
                 ![p].found = {i \in ItemIds : /\ items[i].owner = procs[p].actor
                                               /\ items[i].isActive = TRUE}]
  /\ UNCHANGED <<users, items, requests, reviews, messages, reports, blobs, db, nextId, now, bk>>

\* GET /user/:userId: Item.find({ owner: req.params.userId, isActive: true })
UserItems_find(p) ==
  /\ procs[p].op = "UserItems" /\ procs[p].pc = "find"
  /\ procs' = [Done(p, 200, "items") EXCEPT
                 ![p].found = {i \in ItemIds : /\ items[i].owner = procs[p].target
                                               /\ items[i].isActive = TRUE}]
  /\ UNCHANGED <<users, items, requests, reviews, messages, reports, blobs, db, nextId, now, bk>>

\* GET /:id: Item.findById; a malformed id makes the query throw
GetItem_findItem(p) ==
  /\ procs[p].op = "GetItem" /\ procs[p].pc = "findItem"
  /\ LET it == FindItem(procs[p].target)
     IN procs' = IF procs[p].target = 0 THEN Done(p, 500, "Server error")
                 ELSE IF ItemMissing(it) THEN Done(p, 404, "Item not found")
                 ELSE [procs EXCEPT ![p].pc = "save", ![p].cnt = it.viewCount + 1]
  /\ UNCHANGED <<users, items, requests, reviews, messages, reports, blobs, db, nextId, now, bk>>

\* item.viewCount += 1; item.save()
GetItem_save(p) ==
  /\ procs[p].op = "GetItem" /\ procs[p].pc = "save"
  /\ procs[p].cnt <= MaxViews
  /\ LET i == procs[p].target
     IN IF items[i] # NoItem
        THEN /\ items' = [items EXCEPT ![i].viewCount = procs[p].cnt]
             /\ procs' = [Done(p, 200, "item") EXCEPT ![p].found = {i}]
        ELSE /\ items' = items
             /\ procs' = Done(p, 500, "Server error")
  /\ UNCHANGED <<users, requests, reviews, messages, reports, blobs, db, nextId, now, bk>>

\* PUT /:id: the lookup and the checks before the updates are applied
UpdateItem_findItem(p) ==
  /\ procs[p].op = "UpdateItem" /\ procs[p].pc = "findItem"
  /\ LET it == FindItem(procs[p].target)
     IN procs' =
          IF it = NoItem THEN Done(p, 404, "Item not found")
          ELSE IF ItemMissing(it) THEN Done(p, 404, "Item has been deleted")
          ELSE IF it.owner # procs[p].actor
               THEN Done(p, 403, "Not authorized to update this item")
          ELSE IF procs[p].content = "none" THEN Done(p, 400, "No updates provided")
          ELSE Goto(p, "save")
  /\ UNCHANGED <<users, items, requests, reviews, messages, reports, blobs, db, nextId, now, bk>>

\* the owner is not protected
immutableFieldsNoOwner == {"_id", "createdAt"}

\* const immutableFields = ['_id', 'owner', 'createdAt']
immutableFields == {"_id", "owner", "createdAt"}

\* the key that an update body names
KeyOf(u) == IF u = "isActiveTrue" THEN "isActive" ELSE u

\* item[key] = updates[key] for the keys that are not immutable; item.save().
\* The body names title, or isActive: false, or isActive: true, or
\* owner: the last user
UpdateItem_save(p) ==
  /\ procs[p].op = "UpdateItem" /\ procs[p].pc = "save"
  /\ LET i == procs[p].target
         key == KeyOf(procs[p].content)
     IN IF items[i] # NoItem
        THEN /\ items' = IF key \in immutableFields THEN items
                          ELSE IF key = "title" THEN [items EXCEPT ![i].title = "changed"]
                          ELSE IF key = "owner" THEN [items EXCEPT ![i].owner = NumUsers]
                          ELSE [items EXCEPT ![i].isActive =
                                               (procs[p].content = "isActiveTrue")]
             /\ procs' = Done(p, 200, "Item updated successfully")
        ELSE /\ items' = items
             /\ procs' = Done(p, 500, "Server error while updating item")
  /\ UNCHANGED <<users, requests, reviews, messages, reports, blobs, db, nextId, now, bk>>

\* DELETE /:id: the lookup and the checks before the soft delete
DeleteItem_findItem(p) ==
  /\ procs[p].op = "DeleteItem" /\ procs[p].pc = "findItem"
  /\ LET it == FindItem(procs[p].target)
     IN procs' =
          IF it = NoItem THEN Done(p, 404, "Item not found")
          ELSE IF it.owner # procs[p].actor
               THEN Done(p, 403, "Not authorized to delete this item")
          ELSE IF ~it.isActive THEN Done(p, 404, "Item already deleted")
          ELSE Goto(p, "save")
  /\ UNCHANGED <<users, items, requests, reviews, messages, reports, blobs, db, nextId, now, bk>>

\* item.isActive = false; item.save(), then the verifying fetch
DeleteItem_save(p) ==
  /\ procs[p].op = "DeleteItem" /\ procs[p].pc = "save"
  /\ LET i == procs[p].target
     IN IF items[i] # NoItem
        THEN /\ items' = [items EXCEPT ![i].isActive = FALSE]
             /\ procs' = Done(p, 200, "Item deleted successfully")
        ELSE /\ items' = items
             /\ procs' = Done(p, 500, "Server error while deleting item")
  /\ UNCHANGED <<users, requests, reviews, messages, reports, blobs, db, nextId, now, bk>>

\* admin.js PUT /items/:id/deactivate: Item.findById
DeactivateItem_findItem(p) ==
  /\ procs[p].op = "DeactivateItem" /\ procs[p].pc = "findItem"
  /\ procs' = IF procs[p].target = 0 THEN Done(p, 500, "Server error")
              ELSE IF FindItem(procs[p].target) = NoItem THEN Done(p, 404, "Item not found")
              ELSE Goto(p, "save")
  /\ UNCHANGED <<users, items, requests, reviews, messages, reports, blobs, db, nextId, now, bk>>

\* item.isActive = false; item.save()
DeactivateItem_save(p) ==
  /\ procs[p].op = "DeactivateItem" /\ procs[p].pc = "save"
  /\ LET i == procs[p].target
     IN IF items[i] # NoItem
        THEN /\ items' = [items EXCEPT ![i].isActive = FALSE]
             /\ procs' = Done(p, 200, "item")
        ELSE /\ items' = items
             /\ procs' = Done(p, 500, "Server error")
  /\ UNCHANGED <<users, requests, reviews, messages, reports, blobs, db, nextId, now, bk>>

(***************************************************************************)
(* routes/reports.js, routes/admin.js: reports                             *)
(***************************************************************************)
\* the enum of reportSchema.reason
ReportReasons == {"Scam", "Other"}

ReportIds == 1..MaxReports
Report(id) == CHOOSE rp \in reports : rp.id = id
ReportExists(id) == \E rp \in reports : rp.id = id

StartCreateReport(p, a, i, u, why) ==
  /\ procs[p].pc = "idle"
  /\ procs' = [procs EXCEPT ![p] =
                 [IdleProc EXCEPT !.op = "CreateReport", !.pc = "auth", !.actor = a,
                                  !.reportedItem = i, !.reportedUser = u,
                                  !.reason = why]]
  /\ UNCHANGED <<users, items, requests, reviews, messages, reports, blobs, db, nextId, now, bk>>

\* new Report({ ..., status: 'Pending' }); report.save() validates the
\* document against reportSchema
CreateReport_save(p) ==
  /\ procs[p].op = "CreateReport" /\ procs[p].pc = "save"
  /\ Cardinality(reports) < MaxReports
  /\ IF procs[p].reason \in ReportReasons
     THEN /\ reports' = reports \cup
                {[id |-> Cardinality(reports) + 1, reporter |-> procs[p].actor,
                  reportedItem |-> procs[p].reportedItem,
                  reportedUser |-> procs[p].reportedUser,
                  reason |-> procs[p].reason, status |-> "Pending",
                  resolvedBy |-> 0, resolvedAt |-> 0]}
          /\ procs' = Done(p, 201, "Report submitted successfully")
     ELSE /\ reports' = reports
          /\ procs' = Done(p, 500, "Server error")
  /\ UNCHANGED <<users, items, requests, reviews, messages, blobs, db, nextId, now, bk>>

StartResolveReport(p, a, id, st) ==
  /\ procs[p].pc = "idle"
  /\ procs' = [procs EXCEPT ![p] =
                 [IdleProc EXCEPT !.op = "ResolveReport", !.pc = "auth", !.actor = a,
                                  !.target = id, !.status = st]]
  /\ UNCHANGED <<users, items, requests, reviews, messages, reports, blobs, db, nextId, now, bk>>

\* Report.findById(req.params.id)
ResolveReport_findReport(p) ==
  /\ procs[p].op = "ResolveReport" /\ procs[p].pc = "findReport"
  /\ procs' = IF ~ReportExists(procs[p].target) THEN Done(p, 404, "Report not found")
              ELSE Goto(p, "save")
  /\ UNCHANGED <<users, items, requests, reviews, messages, reports, blobs, db, nextId, now, bk>>

\* report.status = status; resolvedBy = req.userId; resolvedAt = new Date();
\* report.save().  Time 0 is before the service started: resolvedAt is now + 1
ResolveReport_save(p) ==
  /\ procs[p].op = "ResolveReport" /\ procs[p].pc = "save"
  /\ LET id == procs[p].target
     IN reports' = {IF rp.id = id
                    THEN [rp EXCEPT !.status = procs[p].status,
                                    !.resolvedBy = procs[p].actor,
                                    !.resolvedAt = now + 1]
                    ELSE rp : rp \in reports}
  /\ procs' = Done(p, 200, "report")
  /\ UNCHANGED <<users, items, requests, reviews, messages, blobs, db, nextId, now, bk>>

(***************************************************************************)
(* routes/admin.js: the listings and DELETE /reports/:id                   *)
(***************************************************************************)
StartAdminRoute(p, op, a, id) ==
  /\ procs[p].pc = "idle"
  /\ procs' = [procs EXCEPT ![p] =
                 [IdleProc EXCEPT !.op = op, !.pc = "auth", !.actor = a, !.target = id]]
  /\ UNCHANGED <<users, items, requests, reviews, messages, reports, blobs, db, nextId, now, bk>>

\* User.find / Item.find / Report.find / countDocuments: reads only
AdminRead_find(p) ==
  /\ procs[p].op = "AdminRead" /\ procs[p].pc = "find"
  /\ procs' = Done(p, 200, "success")
  /\ UNCHANGED <<users, items, requests, reviews, messages, reports, blobs, db, nextId, now, bk>>

\* Report.findById(req.params.id)
DeleteReport_findReport(p) ==
  /\ procs[p].op = "DeleteReport" /\ procs[p].pc = "findReport"
  /\ procs' = IF ~ReportExists(procs[p].target) THEN Done(p, 404, "Report not found")
              ELSE Goto(p, "deleteOne")
  /\ UNCHANGED <<users, items, requests, reviews, messages, reports, blobs, db, nextId, now, bk>>

\* report.deleteOne()
DeleteReport_deleteOne(p) ==
  /\ procs[p].op = "DeleteReport" /\ procs[p].pc = "deleteOne"
  /\ reports' = {rp \in reports : rp.id # procs[p].target}
  /\ procs' = Done(p, 200, "success")
  /\ UNCHANGED <<users, items, requests, reviews, messages, blobs, db, nextId, now, bk>>

(***************************************************************************)
(* server.js: the middleware in front of the routes, and the connection    *)
(***************************************************************************)
\* rateLimit({ max: 100 })
RateMax == 100

\* the readiness middleware looks at the configuration only
GateDenialConfigOnly(d) ==
  IF ~d.configured THEN <<503, "Database is not configured">>
  ELSE <<0, "">>

\* app.use('/api/', ...): the readiness middleware
GateDenial(d) ==
  IF ~d.configured THEN <<503, "Database is not configured">>
  ELSE IF ~d.mongoReady THEN <<503, "Database connection unavailable">>
  ELSE <<0, "">>

\* mongoose.connection.on('connected')
DbConnected ==
  /\ db.configured /\ ~db.connected
  /\ db' = [db EXCEPT !.connected = TRUE, !.mongoReady = TRUE]
  /\ UNCHANGED <<users, items, requests, reviews, messages, reports, blobs, nextId, now, bk, procs>>

\* mongoose.connection.on('disconnected')
DbDisconnected ==
  /\ db.connected
  /\ db' = [db EXCEPT !.connected = FALSE, !.mongoReady = FALSE]
  /\ UNCHANGED <<users, items, requests, reviews, messages, reports, blobs, nextId, now, bk, procs>>

\* mongoose.connection.on('error'): the connection itself may survive
DbError ==
  /\ db.configured /\ db.mongoReady
  /\ db' = [db EXCEPT !.mongoReady = FALSE]
  /\ UNCHANGED <<users, items, requests, reviews, messages, reports, blobs, nextId, now, bk, procs>>

\* the window of the rate limiter ends
WindowReset ==
  /\ db.hits > 0
  /\ db' = [db EXCEPT !.hits = 0]
  /\ UNCHANGED <<users, items, requests, reviews, messages, reports, blobs, nextId, now, bk, procs>>

\* a request arrives: /health and / are mounted outside /api
StartRequest(p, op, a) ==
  /\ procs[p].pc = "idle"
  /\ procs' = [procs EXCEPT ![p] =
                 [IdleProc EXCEPT !.op = op, !.actor = a,
                                  !.pc = IF op \in {"Health", "Root"} THEN "serve"
                                         ELSE "limiter"]]
  /\ UNCHANGED <<users, items, requests, reviews, messages, reports, blobs, db, nextId, now, bk>>

\* app.use('/api/', limiter): the request is counted, and refused beyond max
limiter(p) ==
  /\ procs[p].pc = "limiter"
  /\ db' = [db EXCEPT !.hits = IF db.hits > RateMax THEN db.hits ELSE db.hits + 1]
  /\ procs' = IF db.hits + 1 > RateMax THEN Done(p, 429, "Too many requests")
              ELSE Goto(p, "gate")
  /\ UNCHANGED <<users, items, requests, reviews, messages, reports, blobs, nextId, now, bk>>

\* the readiness middleware: 503, or next() into the route
dbGate(p) ==
  /\ procs[p].pc = "gate"
  /\ LET den == GateDenial(db)
     IN procs' = IF den # <<0, "">> THEN Done(p, den[1], den[2])
                 ELSE Goto(p, "auth")
  /\ UNCHANGED <<users, items, requests, reviews, messages, reports, blobs, db, nextId, now, bk>>

\* GET /health and GET /
Serve(p) ==
  /\ procs[p].pc = "serve"
  /\ procs' = Done(p, 200, IF procs[p].op = "Health" THEN "OK"
                           ELSE "Welcome to Campus Crate API")
  /\ UNCHANGED <<users, items, requests, reviews, messages, reports, blobs, db, nextId, now, bk>>

(***************************************************************************)
(* Reviews and ratings: the store after some rentals were completed        *)
(***************************************************************************)
RatingInputs == {0, 4, 5}
SlackOutcomes == {"unconfigured", "sent", "failed"}
Passwords == {"none", "wrong", "right"}

CompletedRequest(i, b, s, e) ==
  [item |-> i, borrower |-> b, lender |-> i, startDate |-> s, endDate |-> e,
   status |-> "Completed", totalCost |-> TotalCost(100, s, e)]

\* users 1 and 2 rented from each other; the second rental may still run
RentalHistories ==
  {rq \in [ReqIds -> {NoReq, CompletedRequest(1, 2, 0, 1), CompletedRequest(2, 1, 1, 2),
                      [CompletedRequest(2, 1, 1, 2) EXCEPT !.status = "Active"]}] :
     /\ rq[1] = CompletedRequest(1, 2, 0, 1)
     /\ \A r \in ReqIds : r = 2 => rq[r] \notin {NoReq, rq[1]}
     /\ \A r \in ReqIds : r > 2 => rq[r] = NoReq}

ReviewInit ==
  /\ users = [u \in UserIds |-> IF u = NumUsers THEN [InitUser EXCEPT !.role = "admin"]
                                ELSE InitUser]
  /\ items = [i \in ItemIds |-> InitItem(i, 100)]
  /\ requests \in RentalHistories
  /\ reviews = {}
  /\ messages = {}
  /\ reports = {}
  /\ blobs = {}
  /\ db = DbUp
  /\ nextId = 1
  /\ now = MaxDay + 1
  /\ bk = NoCall
  /\ procs = [p \in ProcIds |-> IdleProc]

ReviewStart(p) ==
  \/ \E a \in UserIds, r \in ReqIds, t \in UserIds, g \in RatingInputs :
       StartCreateReview(p, a, r, t, g)
  \/ \E a \in UserIds, id \in 1..MaxReviews : StartDeleteReview(p, a, id)
  \/ \E a \in UserIds, pw \in Passwords : StartDeleteAccount(p, a, pw)

ReviewStep(p) ==
  \/ authenticateToken(p)
  \/ CreateReview_findRequest(p)
  \/ CreateReview_findExisting(p)
  \/ CreateReview_save(p)
  \/ CreateReview_findReviews(p)
  \/ CreateReview_updateUser(p)
  \/ \E o \in SlackOutcomes : CreateReview_notify(p, o)
  \/ DeleteReview_findReview(p)
  \/ DeleteReview_deleteOne(p)
  \/ DeleteReview_findReviews(p)
  \/ DeleteReview_updateUser(p)
  \/ DeleteAccount_findUser(p)
  \/ \E k \in {"items", "requests", "reviews"} : DeleteAccount_cascade(p, k)
  \/ DeleteAccount_deleteUser(p)
  \/ Reply(p)

\* requests are served one at a time
ReviewSeqNext ==
  \/ \E p \in ProcIds : AllIdle /\ p = 1 /\ ReviewStart(p)
  \/ \E p \in ProcIds : ReviewStep(p)

ReviewSeqSpec == ReviewInit /\ [][ReviewSeqNext]_vars

\* requests are served concurrently: users 1 and 2 review their two rentals,
\* naming user 2, while the admin deletes reviews
ReviewConcInit ==
  /\ ReviewInit
  /\ \A r \in ReqIds : requests[r] # NoReq => requests[r].status = "Completed"

ReviewStartConc(p) ==
  \/ \E a \in {1, 2}, r \in {1, 2}, g \in {4, 5} : StartCreateReview(p, a, r, 2, g)
  \/ \E id \in 1..MaxReviews : StartDeleteReview(p, NumUsers, id)

ReviewStepConc(p) ==
  \/ authenticateToken(p)
  \/ CreateReview_findRequest(p)
  \/ CreateReview_findExisting(p)
  \/ CreateReview_save(p)
  \/ CreateReview_findReviews(p)
  \/ CreateReview_updateUser(p)
  \/ \E o \in SlackOutcomes : CreateReview_notify(p, o)
  \/ DeleteReview_findReview(p)
  \/ DeleteReview_deleteOne(p)
  \/ DeleteReview_findReviews(p)
  \/ DeleteReview_updateUser(p)
  \/ Reply(p)

ReviewNext ==
  \/ \E p \in ProcIds : ReviewStartConc(p)
  \/ \E p \in ProcIds : ReviewStepConc(p)

ReviewSpec == ReviewConcInit /\ [][ReviewNext]_vars

(***************************************************************************)
(* Moderation of users: role changes, deletions, account self-deletion     *)
(***************************************************************************)
RoleInputs == {"user", "admin", "manager", "owner"}

AdminInit ==
  /\ users \in {us \in [UserIds -> {[InitUser EXCEPT !.role = ro] :
                                      ro \in {"user", "admin", "manager"}}] :
                  /\ us[1].role = "manager"
                  /\ us[2].role \in {"manager", "admin"}
                  /\ \A u \in UserIds : u > 2 => us[u].role = "user"}
  /\ items = [i \in ItemIds |-> InitItem(i, 100)]
  /\ requests = [r \in ReqIds |-> NoReq]
  /\ reviews = {}
  /\ messages = {}
  /\ reports = {}
  /\ blobs = {}
  /\ db = DbUp
  /\ nextId = 1
  /\ now = 0
  /\ bk = NoCall
  /\ procs = [p \in ProcIds |-> IdleProc]

AdminStart(p) ==
  \/ \E a \in UserIds, t \in UserIds, nr \in RoleInputs : StartPutRole(p, a, t, nr)
  \/ \E a \in UserIds, t \in UserIds : StartDeleteUser(p, a, t)
  \/ \E a \in UserIds, pw \in Passwords : StartDeleteAccount(p, a, pw)

AdminStep(p) ==
  \/ authenticateToken(p)
  \/ PutRole_findTarget(p)
  \/ PutRole_countManagers(p)
  \/ PutRole_update(p)
  \/ DeleteUser_findTarget(p)
  \/ DeleteUser_countAdmins(p)
  \/ DeleteUser_countManagers(p)
  \/ DeleteUser_deactivateItems(p)
  \/ DeleteUser_deleteOne(p)
  \/ DeleteAccount_findUser(p)
  \/ \E k \in {"items", "requests", "reviews"} : DeleteAccount_cascade(p, k)
  \/ DeleteAccount_deleteUser(p)
  \/ Reply(p)

\* requests are served one at a time
AdminSeqNext ==
  \/ \E p \in ProcIds : AllIdle /\ p = 1 /\ AdminStart(p)
  \/ \E p \in ProcIds : AdminStep(p)

AdminSeqSpec == AdminInit /\ [][AdminSeqNext]_vars

\* requests are served concurrently: users 1 and 2 demote, delete and
\* remove their own accounts
AdminStartConc(p) ==
  \/ \E a \in {1, 2}, t \in {1, 2} : StartPutRole(p, a, t, "user")
  \/ \E a \in {1, 2}, t \in {1, 2} : StartDeleteUser(p, a, t)
  \/ \E a \in {1, 2} : StartDeleteAccount(p, a, "right")

AdminNext ==
  \/ \E p \in ProcIds : AdminStartConc(p)
  \/ \E p \in ProcIds : AdminStep(p)

AdminSpec == AdminInit /\ [][AdminNext]_vars

(***************************************************************************)
(* Moderation of accounts: verify, reset password, deactivate, ban, unban, *)
(* delete and demote, a manager, an admin or a user asking                  *)
(***************************************************************************)
NewPasswords == {"short", "changed"}

\* user 1 is a manager; users 2 and 3 are managers, admins or plain users
ModInit ==
  /\ users \in {us \in [UserIds -> {[InitUser EXCEPT !.role = ro] :
                                      ro \in {"user", "admin", "manager"}}] :
                  /\ us[1].role = "manager"
                  /\ us[2].role \in {"manager", "admin"}
                  /\ \A u \in UserIds : u = 3 => us[u].role \in {"admin", "user"}
                  /\ \A u \in UserIds : u > 3 => us[u].role = "user"}
  /\ items = [i \in ItemIds |-> InitItem(i, 100)]
  /\ requests = [r \in ReqIds |-> NoReq]
  /\ reviews = {}
  /\ messages = {}
  /\ reports = {}
  /\ blobs = {}
  /\ db = DbUp
  /\ nextId = 1
  /\ now = 0
  /\ bk = NoCall
  /\ procs = [p \in ProcIds |-> IdleProc]

ModStart(p) ==
  \/ \E a \in UserIds, t \in UserIds : StartVerify(p, a, t)
  \/ \E a \in UserIds, t \in UserIds, np \in NewPasswords : StartResetPassword(p, a, t, np)
  \/ \E a \in UserIds, t \in UserIds : StartDeactivate(p, a, t)
  \/ \E a \in UserIds, t \in UserIds : StartBan(p, a, t)
  \/ \E a \in UserIds, t \in UserIds : StartUnban(p, a, t)
  \/ \E a \in UserIds, t \in UserIds : StartDeleteUser(p, a, t)
  \/ \E a \in UserIds, t \in UserIds : StartPutRole(p, a, t, "user")

ModStep(p) ==
  \/ authenticateToken(p)
  \/ Verify_findTarget(p)
  \/ Verify_save(p)
  \/ ResetPassword_findTarget(p)
  \/ ResetPassword_save(p)
  \/ Deactivate_findTarget(p)
  \/ Deactivate_countAdmins(p)
  \/ Deactivate_save(p)
  \/ Ban_findTarget(p)
  \/ Ban_countAdmins(p)
  \/ Ban_save(p)
  \/ Unban_findTarget(p)
  \/ Unban_save(p)
  \/ DeleteUser_findTarget(p)
  \/ DeleteUser_countAdmins(p)
  \/ DeleteUser_countManagers(p)
  \/ DeleteUser_deactivateItems(p)
  \/ DeleteUser_deleteOne(p)
  \/ PutRole_findTarget(p)
  \/ PutRole_countManagers(p)
  \/ PutRole_update(p)
  \/ Reply(p)

\* requests are served one at a time
ModSeqNext ==
  \/ \E p \in ProcIds : AllIdle /\ p = 1 /\ ModStart(p)
  \/ \E p \in ProcIds : ModStep(p)

ModSeqSpec == ModInit /\ [][ModSeqNext]_vars

(***************************************************************************)
(* Booking threads: users 1 and 2 are the parties of the first two lending *)
(* requests, user 3 is staff and a party of none; requests are served      *)
(* concurrently                                                            *)
(***************************************************************************)
Contents == {" ", "hello"}

ThreadInit ==
  /\ \E staff \in {"admin", "manager"} :
       users = [u \in UserIds |->
                  IF u = 3 THEN [InitUser EXCEPT !.role = staff, !.isVerified = TRUE]
                  ELSE [InitUser EXCEPT !.isVerified = (u # 2)]]
  /\ items = [i \in ItemIds |-> InitItem(i, 100)]
  /\ requests = [r \in ReqIds |-> IF r = 1 THEN CompletedRequest(1, 2, 0, 1)
                                  ELSE IF r = 2 THEN CompletedRequest(2, 1, 1, 2)
                                  ELSE NoReq]
  /\ reviews = {}
  /\ messages = {}
  /\ reports = {}
  /\ blobs = {}
  /\ db = DbUp
  /\ nextId = 1
  /\ now = 0
  /\ bk = NoCall
  /\ procs = [p \in ProcIds |-> IdleProc]

ThreadStart(p) ==
  \/ \E a \in UserIds, r \in ReqIds : StartGetThread(p, a, r)
  \/ \E a \in UserIds, r \in ReqIds, c \in Contents : StartSendMessage(p, a, r, c)
  \/ \E t \in UserIds : StartVerify(p, 3, t)

ThreadStep(p) ==
  \/ authenticateToken(p)
  \/ GetThread_findRequest(p)
  \/ GetThread_findMessages(p)
  \/ GetThread_markRead(p)
  \/ SendMessage_findRequest(p)
  \/ SendMessage_save(p)
  \/ Verify_findTarget(p)
  \/ Verify_save(p)
  \/ Reply(p)

ThreadNext ==
  \/ \E p \in ProcIds : ThreadStart(p)
  \/ \E p \in ProcIds : ThreadStep(p)

ThreadSpec == ThreadInit /\ [][ThreadNext]_vars

\* the same threads, with the list of conversations; requests are served
\* one at a time
ChatSeqNext ==
  \/ \E p \in ProcIds, a \in UserIds, r \in ReqIds :
       AllIdle /\ p = 1 /\ StartGetThread(p, a, r)
  \/ \E p \in ProcIds, a \in UserIds, r \in ReqIds :
       AllIdle /\ p = 1 /\ StartSendMessage(p, a, r, "hello")
  \/ \E p \in ProcIds, a \in UserIds : AllIdle /\ p = 1 /\ StartConversations(p, a)
  \/ \E p \in ProcIds, t \in UserIds : AllIdle /\ p = 1 /\ StartVerify(p, 3, t)
  \/ \E p \in ProcIds : authenticateToken(p)
  \/ \E p \in ProcIds : GetThread_findRequest(p)
  \/ \E p \in ProcIds : GetThread_findMessages(p)
  \/ \E p \in ProcIds : GetThread_markRead(p)
  \/ \E p \in ProcIds : SendMessage_findRequest(p)
  \/ \E p \in ProcIds : SendMessage_save(p)
  \/ \E p \in ProcIds : Conversations_findRentals(p)
  \/ \E p \in ProcIds : Conversations_findLast(p)
  \/ \E p \in ProcIds : Verify_findTarget(p)
  \/ \E p \in ProcIds : Verify_save(p)
  \/ \E p \in ProcIds : Reply(p)

ChatSeqSpec == ThreadInit /\ [][ChatSeqNext]_vars

(***************************************************************************)
(* Profiles: users 1 and 2 edit their profiles and upload images,          *)
(* concurrently                                                            *)
(***************************************************************************)
Names == {"", "renamed"}
Files == {"none", "image", "other"}
UploadOutcomes == {"ok", "failed"}

ProfileInit ==
  /\ users = [u \in UserIds |-> InitUser]
  /\ items = [i \in ItemIds |-> InitItem(i, 100)]
  /\ requests = [r \in ReqIds |-> NoReq]
  /\ reviews = {}
  /\ messages = {}
  /\ reports = {}
  /\ blobs = {}
  /\ db = DbUp
  /\ nextId = 1
  /\ now = 0
  /\ bk = NoCall
  /\ procs = [p \in ProcIds |-> IdleProc]

ProfileNext ==
  \/ \E p \in ProcIds, a \in {1, 2}, nm \in Names, f \in Files : StartPutProfile(p, a, nm, f)
  \/ \E p \in ProcIds, a \in {1, 2}, f \in Files : StartProfileImage(p, a, f)
  \/ \E p \in ProcIds : authenticateToken(p)
  \/ \E p \in ProcIds : PutProfile_findUser(p)
  \/ \E p \in ProcIds, o \in UploadOutcomes : PutProfile_upload(p, o)
  \/ \E p \in ProcIds : PutProfile_save(p)
  \/ \E p \in ProcIds, o \in UploadOutcomes : ProfileImage_upload(p, o)
  \/ \E p \in ProcIds : ProfileImage_update(p)
  \/ \E p \in ProcIds : Reply(p)

ProfileSpec == ProfileInit /\ [][ProfileNext]_vars

(***************************************************************************)
(* Store failures: a call to the store throws in the middle of a handler.  *)
(* User 1 and the manager (user 2) rented from each other; user 3 is the   *)
(* admin.  Requests are served one at a time.                              *)
(***************************************************************************)
MultiWriteOps == {"CreateReview", "DeleteUser", "DeleteAccount"}

\* the positions of a handler at which one call to the store is awaited
StoreCalls == {"findRequest", "findExisting", "save", "findReviews", "updateUser",
               "findTarget", "countAdmins", "countManagers", "deactivateItems",
               "deleteOne", "findUser", "deleteUser"}

\* the awaited call rejects: the handler's catch block answers 500 and
\* nothing that was written before is undone
StoreError(p) ==
  /\ procs[p].op \in MultiWriteOps
  /\ procs[p].pc \in StoreCalls
  /\ procs' = Done(p, 500, "Server error")
  /\ UNCHANGED <<users, items, requests, reviews, messages, reports, blobs, db, nextId, now, bk>>

FaultInit ==
  /\ users = [u \in UserIds |-> IF u = NumUsers THEN [InitUser EXCEPT !.role = "admin"]
                                 ELSE IF u = 2 THEN [InitUser EXCEPT !.role = "manager"]
                                 ELSE InitUser]
  /\ items = [i \in ItemIds |-> InitItem(i, 100)]
  /\ requests \in RentalHistories
  /\ reviews = {}
  /\ messages = {}
  /\ reports = {}
  /\ blobs = {}
  /\ db = DbUp
  /\ nextId = 1
  /\ now = MaxDay + 1
  /\ bk = NoCall
  /\ procs = [p \in ProcIds |-> IdleProc]

FaultNext ==
  \/ \E p \in ProcIds, a \in {1, 2}, r \in ReqIds :
       AllIdle /\ p = 1 /\ StartCreateReview(p, a, r, 3 - a, 5)
  \/ \E p \in ProcIds, a \in {2, NumUsers}, t \in UserIds :
       AllIdle /\ p = 1 /\ StartDeleteUser(p, a, t)
  \/ \E p \in ProcIds, a \in {1, 2} :
       AllIdle /\ p = 1 /\ StartDeleteAccount(p, a, "right")
  \/ \E p \in ProcIds : authenticateToken(p)
  \/ \E p \in ProcIds : CreateReview_findRequest(p)
  \/ \E p \in ProcIds : CreateReview_findExisting(p)
  \/ \E p \in ProcIds : CreateReview_save(p)
  \/ \E p \in ProcIds : CreateReview_findReviews(p)
  \/ \E p \in ProcIds : CreateReview_updateUser(p)
  \/ \E p \in ProcIds, o \in SlackOutcomes : CreateReview_notify(p, o)
  \/ \E p \in ProcIds : DeleteUser_findTarget(p)
  \/ \E p \in ProcIds : DeleteUser_countAdmins(p)
  \/ \E p \in ProcIds : DeleteUser_countManagers(p)
  \/ \E p \in ProcIds : DeleteUser_deactivateItems(p)
  \/ \E p \in ProcIds : DeleteUser_deleteOne(p)
  \/ \E p \in ProcIds : DeleteAccount_findUser(p)
  \/ \E p \in ProcIds, k \in {"items", "requests", "reviews"} : DeleteAccount_cascade(p, k)
  \/ \E p \in ProcIds : DeleteAccount_deleteUser(p)
  \/ \E p \in ProcIds : StoreError(p)
  \/ \E p \in ProcIds : Reply(p)

FaultSpec == FaultInit /\ [][FaultNext]_vars

(***************************************************************************)
(* The catalogue: users 1 and 2 own the items and user 3 is the admin;     *)
(* the last item may never have been listed.  Requests are served one at   *)
(* a time, bookings included.                                              *)
(***************************************************************************)
ItemOps == {"ListItems", "MyItems", "UserItems", "GetItem", "UpdateItem",
            "DeleteItem", "DeactivateItem"}
ItemUpdates == {"none", "title", "isActive", "isActiveTrue", "owner"}

ItemInit ==
  /\ users = [u \in UserIds |-> IF u = NumUsers THEN [InitUser EXCEPT !.role = "admin"]
                                 ELSE InitUser]
  /\ \E gone \in BOOLEAN :
       items = [i \in ItemIds |-> IF gone /\ i = NumItems THEN NoItem
                                  ELSE InitItem(IF i = 1 THEN 1 ELSE 2, 100)]
  /\ requests = [r \in ReqIds |-> NoReq]
  /\ reviews = {}
  /\ messages = {}
  /\ reports = {}
  /\ blobs = {}
  /\ db = DbUp
  /\ nextId = 1
  /\ now = 0
  /\ bk = NoCall
  /\ procs = [p \in ProcIds |-> IdleProc]

ItemSeqNext ==
  \/ \E p \in ProcIds, op \in ItemOps, a \in UserIds, i \in ItemIds \cup {0},
         u \in ItemUpdates :
       /\ AllIdle /\ p = 1 /\ bk = NoCall
       /\ op \in {"ListItems", "MyItems"} => i = 0
       /\ op = "UserItems" => i \in UserIds
       /\ op \in {"ListItems", "UserItems", "GetItem"} => a = 1
       /\ op # "UpdateItem" => u = "none"
       /\ StartItems(p, op, a, i, u)
  \/ \E p \in ProcIds : authenticateToken(p)
  \/ \E p \in ProcIds : ListItems_find(p)
  \/ \E p \in ProcIds : MyItems_find(p)
  \/ \E p \in ProcIds : UserItems_find(p)
  \/ \E p \in ProcIds : GetItem_findItem(p)
  \/ \E p \in ProcIds : GetItem_save(p)
  \/ \E p \in ProcIds : UpdateItem_findItem(p)
  \/ \E p \in ProcIds : UpdateItem_save(p)
  \/ \E p \in ProcIds : DeleteItem_findItem(p)
  \/ \E p \in ProcIds : DeleteItem_save(p)
  \/ \E p \in ProcIds : DeactivateItem_findItem(p)
  \/ \E p \in ProcIds : DeactivateItem_save(p)
  \/ \E p \in ProcIds : AllIdle /\ p = 1 /\ bk = NoCall /\ StartBan(p, NumUsers, 1)
  \/ \E p \in ProcIds : AllIdle /\ p = 1 /\ bk = NoCall /\ StartUnban(p, NumUsers, 1)
  \/ \E p \in ProcIds : Ban_findTarget(p) \/ Ban_save(p)
  \/ \E p \in ProcIds : Unban_findTarget(p) \/ Unban_save(p)
  \/ \E p \in ProcIds : Reply(p)
  \/ \E i \in ItemIds : AllIdle /\ CreateRequest(NumUsers, i, now, now + 1)
  \/ Respond

ItemSeqSpec == ItemInit /\ [][ItemSeqNext]_vars

(***************************************************************************)
(* Reports: users 1 and 2 report item 1 and user 2, the admin (user 3)     *)
(* resolves.  Requests are served one at a time.                           *)
(***************************************************************************)
ReasonInputs == {"", "Scam", "Spam"}
StatusInputs == {"Reviewing", "Resolved", "Dismissed"}

ReportInit ==
  /\ users = [u \in UserIds |-> IF u = NumUsers THEN [InitUser EXCEPT !.role = "admin"]
                                 ELSE InitUser]
  /\ items = [i \in ItemIds |-> InitItem(1, 100)]
  /\ requests = [r \in ReqIds |-> NoReq]
  /\ reviews = {}
  /\ messages = {}
  /\ reports = {}
  /\ blobs = {}
  /\ db = DbUp
  /\ nextId = 1
  /\ now = 0
  /\ bk = NoCall
  /\ procs = [p \in ProcIds |-> IdleProc]

ReportSeqNext ==
  \/ \E p \in ProcIds, a \in {1, 2}, i \in {0, 1}, u \in {0, 2}, why \in ReasonInputs :
       AllIdle /\ p = 1 /\ StartCreateReport(p, a, i, u, why)
  \/ \E p \in ProcIds, a \in {2, NumUsers}, id \in ReportIds, st \in StatusInputs :
       AllIdle /\ p = 1 /\ StartResolveReport(p, a, id, st)
  \/ \E p \in ProcIds : authenticateToken(p)
  \/ \E p \in ProcIds : CreateReport_save(p)
  \/ \E p \in ProcIds : ResolveReport_findReport(p)
  \/ \E p \in ProcIds : ResolveReport_save(p)
  \/ \E p \in ProcIds : Reply(p)
  \/ Tick

ReportSeqSpec == ReportInit /\ [][ReportSeqNext]_vars

(***************************************************************************)
(* Readiness: the service starts before the store is connected, or without *)
(* a configured store; requests arrive concurrently while the connection   *)
(* comes and goes.                                                         *)
(***************************************************************************)
RequestOps == {"Health", "Root", "MyItems"}

ReadyInit ==
  /\ users = [u \in UserIds |-> InitUser]
  /\ items = [i \in ItemIds |-> InitItem(1, 100)]
  /\ requests = [r \in ReqIds |-> NoReq]
  /\ reviews = {}
  /\ messages = {}
  /\ reports = {}
  /\ blobs = {}
  /\ \E c \in BOOLEAN :
       db = [configured |-> c, connected |-> FALSE, mongoReady |-> FALSE, hits |-> 0]
  /\ nextId = 1
  /\ now = 0
  /\ bk = NoCall
  /\ procs = [p \in ProcIds |-> IdleProc]

ReadyNext ==
  \/ DbConnected
  \/ DbDisconnected
  \/ DbError
  \/ WindowReset
  \/ \E p \in ProcIds, op \in RequestOps : StartRequest(p, op, 1)
  \/ \E p \in ProcIds : limiter(p)
  \/ \E p \in ProcIds : dbGate(p)
  \/ \E p \in ProcIds : Serve(p)
  \/ \E p \in ProcIds : authenticateToken(p)
  \/ \E p \in ProcIds : MyItems_find(p)
  \/ \E p \in ProcIds : Reply(p)

ReadySpec == ReadyInit /\ [][ReadyNext]_vars

(***************************************************************************)
(* The operations under /api/admin, called without a token (caller 0), by  *)
(* a user (1), by an admin (2) and by a manager (3).  User 1 has been      *)
(* reviewed and reported.  Requests are served one at a time.              *)
(***************************************************************************)
AdminOps == {"PutRole", "Verify", "ResetPassword", "Deactivate", "Ban", "Unban",
             "DeleteUser", "DeactivateItem", "DeleteReview", "ResolveReport",
             "AdminRead", "DeleteReport"}
Callers == {0} \cup UserIds

GateInit ==
  /\ users = [u \in UserIds |->
                IF u = 2 THEN [InitUser EXCEPT !.role = "admin", !.tokenRole = "admin"]
                ELSE IF u = 3
                     THEN [InitUser EXCEPT !.role = "manager", !.tokenRole = "manager"]
                ELSE IF u = 1 THEN [InitUser EXCEPT !.rating = <<5, 1>>, !.reviewCount = 1]
                ELSE InitUser]
  /\ items = [i \in ItemIds |-> InitItem(1, 100)]
  /\ requests = [r \in ReqIds |-> IF r = 1 THEN CompletedRequest(1, 2, 0, 1) ELSE NoReq]
  /\ reviews = {[id |-> 1, lendingRequest |-> 1, reviewer |-> 2, reviewee |-> 1,
                 rating |-> 5]}
  /\ messages = {}
  /\ reports = {[id |-> 1, reporter |-> 2, reportedItem |-> 0, reportedUser |-> 1,
                 reason |-> "Scam", status |-> "Pending", resolvedBy |-> 0,
                 resolvedAt |-> 0]}
  /\ blobs = {}
  /\ db = DbUp
  /\ nextId = 2
  /\ now = MaxDay + 1
  /\ bk = NoCall
  /\ procs = [p \in ProcIds |-> IdleProc]

GateStart(p) ==
  \/ \E a \in Callers, t \in {1, 2, 3} :
       StartPutRole(p, a, t, IF t = 1 THEN "admin" ELSE "user")
  \/ \E a \in Callers : StartVerify(p, a, 1)
  \/ \E a \in Callers : StartResetPassword(p, a, 1, "changed")
  \/ \E a \in Callers, t \in {1, 2} : StartDeactivate(p, a, t)
  \/ \E a \in Callers, t \in {1, 2} : StartBan(p, a, t)
  \/ \E a \in Callers : StartUnban(p, a, 1)
  \/ \E a \in Callers, t \in {1, 2} : StartDeleteUser(p, a, t)
  \/ \E a \in Callers : StartItems(p, "DeactivateItem", a, 1, "none")
  \/ \E a \in Callers : StartDeleteReview(p, a, 1)
  \/ \E a \in Callers : StartResolveReport(p, a, 1, "Resolved")
  \/ \E a \in Callers, op \in {"AdminRead", "DeleteReport"} : StartAdminRoute(p, op, a, 1)

GateNext ==
  \/ \E p \in ProcIds : AllIdle /\ p = 1 /\ GateStart(p)
  \/ \E p \in ProcIds : authenticateToken(p)
  \/ \E p \in ProcIds : PutRole_findTarget(p)
  \/ \E p \in ProcIds : PutRole_countManagers(p)
  \/ \E p \in ProcIds : PutRole_update(p)
  \/ \E p \in ProcIds : Verify_findTarget(p) \/ Verify_save(p)
  \/ \E p \in ProcIds : ResetPassword_findTarget(p) \/ ResetPassword_save(p)
  \/ \E p \in ProcIds : Deactivate_findTarget(p) \/ Deactivate_save(p)
  \/ \E p \in ProcIds : Ban_findTarget(p) \/ Ban_save(p)
  \/ \E p \in ProcIds : Unban_findTarget(p) \/ Unban_save(p)
  \/ \E p \in ProcIds : DeleteUser_findTarget(p)
  \/ \E p \in ProcIds : DeleteUser_deactivateItems(p)
  \/ \E p \in ProcIds : DeleteUser_deleteOne(p)
  \/ \E p \in ProcIds : DeactivateItem_findItem(p) \/ DeactivateItem_save(p)
  \/ \E p \in ProcIds : DeleteReview_findReview(p) \/ DeleteReview_deleteOne(p)
  \/ \E p \in ProcIds : DeleteReview_findReviews(p) \/ DeleteReview_updateUser(p)
  \/ \E p \in ProcIds : ResolveReport_findReport(p) \/ ResolveReport_save(p)
  \/ \E p \in ProcIds : AdminRead_find(p)
  \/ \E p \in ProcIds : DeleteReport_findReport(p) \/ DeleteReport_deleteOne(p)
  \/ \E p \in ProcIds : Reply(p)

GateSpec == GateInit /\ [][GateNext]_vars

(***************************************************************************)
(* Logins around a ban: user 1 is banned (with or without expiry),         *)
(* unbanned and deactivated by the admin (user 2) while days pass; requests *)
(* are served one at a time                                                *)
(***************************************************************************)
LoginInit ==
  /\ users = [u \in UserIds |->
                IF u = 2 THEN [InitUser EXCEPT !.role = "admin", !.tokenRole = "admin"]
                ELSE InitUser]
  /\ items = [i \in ItemIds |-> InitItem(1, 100)]
  /\ requests = [r \in ReqIds |-> NoReq]
  /\ reviews = {}
  /\ messages = {}
  /\ reports = {}
  /\ blobs = {}
  /\ db = DbUp
  /\ nextId = 1
  /\ now = 0
  /\ bk = NoCall
  /\ procs = [p \in ProcIds |-> IdleProc]

LoginStart(p) ==
  \/ \E until \in {0, now + 1} : StartBanUntil(p, 2, 1, until)
  \/ StartUnban(p, 2, 1)
  \/ StartDeactivate(p, 2, 1)
  \/ StartDeleteUser(p, 2, 1)
  \/ \E a \in {1, 2}, pw \in {"wrong", "right"} : StartLogin(p, a, pw)

LoginSeqNext ==
  \/ \E p \in ProcIds : AllIdle /\ p = 1 /\ LoginStart(p)
  \/ \E p \in ProcIds : authenticateToken(p)
  \/ \E p \in ProcIds : Ban_findTarget(p) \/ Ban_save(p)
  \/ \E p \in ProcIds : Unban_findTarget(p) \/ Unban_save(p)
  \/ \E p \in ProcIds : Deactivate_findTarget(p) \/ Deactivate_save(p)
  \/ \E p \in ProcIds : DeleteUser_findTarget(p)
  \/ \E p \in ProcIds : DeleteUser_deactivateItems(p)
  \/ \E p \in ProcIds : DeleteUser_deleteOne(p)
  \/ \E p \in ProcIds : Login_findUser(p)
  \/ \E p \in ProcIds : Login_comparePassword(p)
  \/ \E p \in ProcIds : Login_save(p)
  \/ \E p \in ProcIds : Reply(p)
  \/ AllIdle /\ Tick

LoginSeqSpec == LoginInit /\ [][LoginSeqNext]_vars

(***************************************************************************)
(* Properties of the review and rating aggregator                          *)
(***************************************************************************)

\* C5: when requests are served one at a time, between requests every user
\* has rating = mean of the ratings of the stored reviews naming the user as
\* reviewee, rounded to one decimal (0 when there are none), and reviewCount
\* = the number of those reviews.
C5_RatingCorrect ==
  AllIdle =>
    \A u \in UserIds :
      UserExists(u) =>
        LET S == {rv \in reviews : rv.reviewee = u}
            n == Cardinality(S)
            sum == SumRatings(S)
        IN /\ users[u].reviewCount = n
           /\ IF n = 0 THEN users[u].rating = <<0, 1>>
              ELSE \E t \in 0..50 :
                     /\ 2 * (10 * sum - t * n) <= n
                     /\ 2 * (t * n - 10 * sum) <= n
                     /\ users[u].rating[1] * 10 = users[u].rating[2] * t

\* C6: once concurrent review submissions and admin review deletions have
\* all finished, the stored rating and reviewCount of every reviewee equal
\* the rounded mean and the count of the reviews then stored.
C6_ConcurrentRating ==
  (\A p \in ProcIds : ~Busy(p)) =>
    \A u \in UserIds :
      LET S == ReviewsOf(u)
      IN UserExists(u) =>
           /\ users[u].reviewCount = Cardinality(S)
           /\ S = {} => users[u].rating[1] = 0
           /\ S # {} =>
                \E t \in 0..50 :
                  /\ 2 * (10 * SumRatings(S) - t * Cardinality(S)) <= Cardinality(S)
                  /\ 2 * (t * Cardinality(S) - 10 * SumRatings(S)) <= Cardinality(S)
                  /\ users[u].rating = Norm(t, 10)

C8_OneReviewPerPair ==
  \A rv1 \in reviews, rv2 \in reviews :
    (rv1.lendingRequest = rv2.lendingRequest /\ rv1.reviewer = rv2.reviewer)
    => rv1.id = rv2.id

(***************************************************************************)
(* Properties of the moderation operations                                 *)
(***************************************************************************)

\* C9: served one at a time, a role change to user or admin, or an admin
\* deletion, that a manager requests against a manager fails with "Cannot
\* demote/delete the last manager" and leaves the target's record unchanged
\* when the target is the only manager, and succeeds when there are at
\* least two managers.
C9_LastManager ==
  \A p \in ProcIds :
    ( /\ procs[p].pc = "done"
      /\ procs[p].role = "manager"
      /\ procs[p].t0.role = "manager"
      /\ \/ procs[p].op = "DeleteUser"
         \/ procs[p].op = "PutRole" /\ procs[p].newRole \in {"user", "admin"} )
    => IF procs[p].mgr0 <= 1
       THEN /\ procs[p].resp[1] = 400
            /\ procs[p].resp[2] = IF procs[p].op = "PutRole"
                                  THEN "Cannot demote the last manager"
                                  ELSE "Cannot delete the last manager"
            /\ users[procs[p].target] = procs[p].t0
       ELSE /\ procs[p].resp[1] = 200
            /\ procs[p].op = "PutRole" =>
                 users[procs[p].target] = [procs[p].t0 EXCEPT !.role = procs[p].newRole]
            /\ procs[p].op = "DeleteUser" => users[procs[p].target] = NoUser

\* the only manager asked to be demoted and was refused
C9_Witness ==
  \E p \in ProcIds :
    /\ procs[p].op = "PutRole" /\ procs[p].pc = "done"
    /\ procs[p].mgr0 = 1 /\ procs[p].t0.role = "manager"
    /\ procs[p].resp = <<400, "Cannot demote the last manager">>
    /\ users[procs[p].target].role = "manager"

\* C10: starting with at least one manager, no interleaving of role changes,
\* admin deletions and account self-deletions leaves the system without a
\* manager.
C10_ManagerRemains ==
  \E u \in UserIds : UserExists(u) /\ users[u].role = "manager"

\* C11: served one at a time, a deactivation or a ban that a manager requests
\* against a manager while at most one manager is active fails and leaves
\* the target's isActive and isBanned flags unchanged.
C11_LastManagerKeptActive ==
  \A p \in ProcIds :
    ( /\ procs[p].pc = "done"
      /\ procs[p].op \in {"Deactivate", "Ban"}
      /\ procs[p].role = "manager"
      /\ procs[p].t0.role = "manager"
      /\ procs[p].amgr0 <= 1 )
    => /\ procs[p].resp[1] >= 400
       /\ users[procs[p].target].isActive = procs[p].t0.isActive
       /\ users[procs[p].target].isBanned = procs[p].t0.isBanned

\* C12: served one at a time and requested by a manager against an admin, a
\* deactivation or a ban fails with "Cannot ... the last active admin" when
\* at most one admin is active, and a deletion fails with "Cannot delete the
\* last admin" when there is at most one admin, the target's record staying
\* as it was; a role change that demotes the admin succeeds whatever the
\* number of admins.
C12_LastAdmin ==
  \A p \in ProcIds :
    ( /\ procs[p].pc = "done"
      /\ procs[p].role = "manager"
      /\ procs[p].t0.role = "admin" )
    => /\ (procs[p].op = "Deactivate" /\ procs[p].aadm0 <= 1) =>
            /\ procs[p].resp = <<400, "Cannot deactivate the last active admin">>
            /\ users[procs[p].target] = procs[p].t0
       /\ (procs[p].op = "Ban" /\ procs[p].aadm0 <= 1) =>
            /\ procs[p].resp = <<400, "Cannot ban the last active admin">>
            /\ users[procs[p].target] = procs[p].t0
       /\ (procs[p].op = "DeleteUser" /\ procs[p].adm0 <= 1) =>
            /\ procs[p].resp = <<400, "Cannot delete the last admin">>
            /\ users[procs[p].target] = procs[p].t0
       /\ (procs[p].op = "PutRole" /\ procs[p].newRole = "user") =>
            /\ procs[p].resp[1] = 200
            /\ users[procs[p].target] = [procs[p].t0 EXCEPT !.role = "user"]

\* a manager was refused the deactivation of the only active admin, a
\* second admin being inactive
C12_Witness ==
  \E p \in ProcIds :
    /\ procs[p].op = "Deactivate" /\ procs[p].pc = "done"
    /\ procs[p].role = "manager" /\ procs[p].t0.role = "admin"
    /\ procs[p].t0.isActive
    /\ procs[p].aadm0 = 1 /\ procs[p].adm0 = 2
    /\ procs[p].resp = <<400, "Cannot deactivate the last active admin">>
    /\ users[procs[p].target].isActive

C15_AcceptRejectGuards ==
  [][ ( /\ bk = NoCall
        /\ bk'.op \in {"Accept", "Reject"}
        /\ requests[bk'.req] # NoReq )
      => LET rq == requests[bk'.req]
         IN /\ bk'.result = "Ok" =>
                 /\ bk'.actor = rq.lender
                 /\ rq.status = "Pending"
                 /\ requests'[bk'.req].status =
                      (IF bk'.op = "Accept" THEN "Accepted" ELSE "Rejected")
            /\ bk'.actor # rq.lender =>
                 /\ bk'.result = "ForbiddenError"
                 /\ requests' = requests
            /\ (bk'.actor = rq.lender /\ rq.status # "Pending") =>
                 /\ bk'.result = "InvalidStateError"
                 /\ requests' = requests ]_vars

\* the borrower tried to accept the pending request and was refused
C15_Witness ==
  /\ bk.op = "Accept" /\ bk.result = "ForbiddenError"
  /\ requests[bk.req] # NoReq
  /\ bk.actor = requests[bk.req].borrower
  /\ requests[bk.req].status = "Pending"

\* C16: on an existing request Cancel succeeds exactly when the caller is
\* its borrower or its lender and its status is Pending or Accepted, and
\* then sets the status to Cancelled; otherwise (status Active included)
\* it fails and no request changes.
C16_CancelGuards ==
  [][ ( /\ bk = NoCall
        /\ bk'.op = "Cancel"
        /\ requests[bk'.req] # NoReq )
      => LET rq == requests[bk'.req]
             allowed == /\ bk'.actor \in {rq.borrower, rq.lender}
                        /\ rq.status \in {"Pending", "Accepted"}
         IN /\ (bk'.result = "Ok") <=> allowed
            /\ allowed => requests' = [requests EXCEPT ![bk'.req].status = "Cancelled"]
            /\ ~allowed => requests' = requests ]_vars

\* the lender tried to cancel a rental that is running
C16_Witness ==
  /\ bk.op = "Cancel" /\ bk.result = "InvalidStateError"
  /\ requests[bk.req] # NoReq
  /\ bk.actor = requests[bk.req].lender
  /\ requests[bk.req].status = "Active"

\* C17: a request becomes Completed only in a Complete step, only from
\* status Active and only when its endDate is behind now; a Complete called
\* before the endDate or on a request in any other status changes nothing.
C17_CompleteGuards ==
  [][ /\ \A r \in ReqIds :
           ( requests'[r] # NoReq /\ requests'[r].status = "Completed"
             /\ requests[r].status # "Completed" )
           => /\ bk'.op = "Complete" /\ bk'.req = r /\ bk'.result = "Ok"
              /\ requests[r].status = "Active"
              /\ requests[r].endDate <= now
      /\ ( /\ bk = NoCall /\ bk'.op = "Complete"
           /\ requests[bk'.req] # NoReq
           /\ \/ requests[bk'.req].status # "Active"
              \/ now < requests[bk'.req].endDate )
         => /\ requests' = requests
            /\ bk'.result # "Ok" ]_vars

\* Complete was called on a running rental whose window is still open
C17_Witness ==
  /\ bk.op = "Complete" /\ bk.result = "InvalidStateError"
  /\ requests[bk.req] # NoReq
  /\ requests[bk.req].status = "Active"
  /\ now < requests[bk.req].endDate

\* C18: every request that exists has borrower # lender and startDate <
\* endDate; a request is created in status Pending, on an active item, with
\* the item's owner as lender and startDate >= now; a CreateRequest on an
\* inactive item, by the owner, with startDate >= endDate or with startDate
\* < now creates no request.
C18_CreatePreconditions ==
  /\ [](\A r \in ReqIds :
          requests[r] # NoReq =>
            /\ requests[r].borrower # requests[r].lender
            /\ requests[r].startDate < requests[r].endDate)
  /\ [][ /\ \A r \in ReqIds :
             (requests[r] = NoReq /\ requests'[r] # NoReq)
             => /\ bk'.op = "CreateRequest" /\ bk'.req = r /\ bk'.result = "Ok"
                /\ requests'[r].status = "Pending"
                /\ items[requests'[r].item].isActive
                /\ requests'[r].lender = items[requests'[r].item].owner
                /\ requests'[r].startDate >= now
        /\ ( /\ bk = NoCall /\ bk'.op = "CreateRequest"
             /\ \/ ~items[bk'.item].isActive
                \/ bk'.actor = items[bk'.item].owner
                \/ bk'.startDate >= bk'.endDate
                \/ bk'.startDate < now )
           => /\ requests' = requests
              /\ bk'.result \in {"NotFoundError", "ValidationError"} ]_vars

\* a booking that would start in the past was refused
C18_Witness ==
  /\ bk.op = "CreateRequest" /\ bk.result = "ValidationError"
  /\ items[bk.item].isActive
  /\ bk.actor # items[bk.item].owner
  /\ bk.startDate < bk.endDate
  /\ bk.startDate < now

\* C19: a created request has totalCost = dailyRate * d, d being the least
\* whole number of days that covers the booked duration (two half days to
\* the day): a rate of 100 over three days costs 300, and a duration of two
\* days and a half is charged as three days.
C19_TotalCost ==
  [][ ( bk = NoCall /\ bk'.op = "CreateRequest" /\ bk'.result = "Ok" )
      => LET rq == requests'[bk'.req]
             rate == items[bk'.item].dailyRate
             dur == bk'.endDate - bk'.startDate
         IN /\ \E d \in 1..MaxTick :
                 /\ 2 * d >= dur /\ 2 * (d - 1) < dur
                 /\ rq.totalCost = rate * d
            /\ (rate = 100 /\ dur = 6) => rq.totalCost = 300
            /\ dur = 5 => rq.totalCost = 3 * rate ]_vars

\* an item of daily rate 100 was booked for two days and a half, at 300
C19_Witness ==
  /\ bk.op = "CreateRequest" /\ bk.result = "Ok"
  /\ items[bk.item].dailyRate = 100
  /\ bk.endDate - bk.startDate = 5
  /\ requests[bk.req].totalCost = 300

(***************************************************************************)
(* Properties of review submission                                         *)
(***************************************************************************)

\* C20: served one at a time, a review is stored only for a lending request
\* that exists with status Completed and by a reviewer who is its borrower
\* or its lender; a submission for a missing request (404), for a request
\* in another status (400) or by a user who is no party (403) ends with an
\* error and stores nothing.
C20_ReviewEligibility ==
  [][ /\ \A rv \in reviews' \ reviews :
           /\ requests[rv.lendingRequest] # NoReq
           /\ requests[rv.lendingRequest].status = "Completed"
           /\ rv.reviewer \in {requests[rv.lendingRequest].borrower,
                                requests[rv.lendingRequest].lender}
      /\ \A p \in ProcIds :
           ( /\ procs[p].op = "CreateReview"
             /\ procs[p].pc \notin {"idle", "done"}
             /\ procs'[p] # procs[p]
             /\ \/ requests[procs[p].req] = NoReq
                \/ requests[procs[p].req].status # "Completed"
                \/ procs[p].actor \notin {requests[procs[p].req].borrower,
                                           requests[procs[p].req].lender} )
           => /\ reviews' = reviews
              /\ procs'[p].pc = "done" => procs'[p].resp[1] >= 400
              /\ procs[p].pc = "findRequest" =>
                   procs'[p].resp =
                     IF requests[procs[p].req] = NoReq
                     THEN <<404, "Lending request not found">>
                     ELSE IF requests[procs[p].req].status # "Completed"
                     THEN <<400, "Can only review completed rentals">>
                     ELSE <<403, "Not authorized to review this rental">> ]_vars

\* after a first review was stored, a user who is no party of the completed
\* rental was refused
C20_Witness ==
  \E p \in ProcIds :
    /\ procs[p].op = "CreateReview" /\ procs[p].pc = "done"
    /\ procs[p].resp = <<403, "Not authorized to review this rental">>
    /\ requests[procs[p].req] # NoReq
    /\ requests[procs[p].req].status = "Completed"
    /\ procs[p].actor \notin {requests[procs[p].req].borrower,
                               requests[procs[p].req].lender}
    /\ \E rv \in reviews : rv.lendingRequest = procs[p].req

\* C21: every review that is stored names as reviewee the other party of
\* its lending request: the lender when the reviewer is the borrower, the
\* borrower when the reviewer is the lender.
C21_RevieweeIsOtherParty ==
  [][ \A rv \in reviews' \ reviews :
        LET lr == requests[rv.lendingRequest]
        IN lr # NoReq =>
             /\ rv.reviewer = lr.borrower => rv.reviewee = lr.lender
             /\ rv.reviewer = lr.lender => rv.reviewee = lr.borrower ]_vars

\* C22: under any interleaving, the step in which a participant's read of
\* a thread marks messages turns every unread message of that thread sent
\* by another user to read and changes no other message (none sent by the
\* reader, none of another thread); the step in which a message is sent
\* adds the new message, unread, and changes no existing message.
C22_ReadMarking ==
  [][ \A p \in ProcIds :
        (procs'[p] # procs[p] /\ procs[p].pc \notin {"idle", "done"})
        => /\ (procs[p].op = "GetThread" /\ procs[p].pc = "markRead") =>
                /\ {m.id : m \in messages'} = {m.id : m \in messages}
                /\ \A m \in messages :
                     LET n == CHOOSE x \in messages' : x.id = m.id
                     IN IF m.lendingRequest = procs[p].req
                           /\ m.sender # procs[p].actor
                        THEN n = [m EXCEPT !.isRead = TRUE]
                        ELSE n = m
           /\ procs[p].op = "SendMessage" =>
                /\ messages \subseteq messages'
                /\ \A n \in messages' \ messages :
                     /\ ~n.isRead
                     /\ n.sender = procs[p].actor
                     /\ n.lendingRequest = procs[p].req
           /\ (procs[p].op = "GetThread" /\ procs[p].pc # "markRead") =>
                messages' = messages ]_vars

\* user 1 has read the first thread: the message of user 2 in it is read,
\* user 1's own message in it and the message of the other thread are not
C22_Witness ==
  \E p \in ProcIds :
    /\ procs[p].op = "GetThread" /\ procs[p].pc = "done"
    /\ procs[p].resp[1] = 200
    /\ \E m \in messages :
         m.lendingRequest = procs[p].req /\ m.sender # procs[p].actor /\ m.isRead
    /\ \E m \in messages :
         (m.lendingRequest # procs[p].req \/ m.sender = procs[p].actor) /\ ~m.isRead

(***************************************************************************)
(* Properties of the authentication gate                                   *)
(***************************************************************************)

\* C23: a request from an account that is deactivated or banned ends in
\* the authentication step, before its handler, with 403 and the code of
\* the cause: ACCOUNT_BANNED for an account that is banned (the ban
\* operation having set isBanned), ACCOUNT_DEACTIVATED for an account that
\* is inactive without being banned.
C23_DenialCodes ==
  [][ \A p \in ProcIds :
        ( /\ procs[p].pc = "auth" /\ procs'[p] # procs[p]
          /\ UserExists(procs[p].actor) )
        => LET u == users[procs[p].actor]
           IN /\ u.isBanned =>
                   /\ procs'[p].pc = "done"
                   /\ procs'[p].resp = <<403, "ACCOUNT_BANNED">>
              /\ (~u.isActive /\ ~u.isBanned) =>
                   /\ procs'[p].pc = "done"
                   /\ procs'[p].resp = <<403, "ACCOUNT_DEACTIVATED">> ]_vars

(***************************************************************************)
(* Properties of the side effects of review submission                     *)
(***************************************************************************)

\* C24: served one at a time, a review submission that reached its
\* notification answers 201 whether the webhook is unconfigured, the post
\* succeeds or the post fails; the post is attempted at most once, and the
\* review and the recomputed rating and reviewCount of the reviewee are in
\* the store when the answer is given.
C24_NotificationBestEffort ==
  \A p \in ProcIds :
    (procs[p].op = "CreateReview" /\ procs[p].pc = "done" /\ procs[p].slack # "none")
    => /\ procs[p].resp = <<201, "Review submitted successfully">>
       /\ procs[p].posts <= 1
       /\ \E rv \in reviews :
            /\ rv.reviewer = procs[p].actor /\ rv.lendingRequest = procs[p].req
            /\ rv.reviewee = procs[p].target /\ rv.rating = procs[p].rating
       /\ LET S == {rv \in reviews : rv.reviewee = procs[p].target}
          IN UserExists(procs[p].target) =>
               /\ users[procs[p].target].reviewCount = Cardinality(S)
               /\ \E t \in 10..50 :
                    /\ 2 * (10 * SumRatings(S) - t * Cardinality(S)) <= Cardinality(S)
                    /\ 2 * (t * Cardinality(S) - 10 * SumRatings(S)) <= Cardinality(S)
                    /\ users[procs[p].target].rating[1] * 10
                         = users[procs[p].target].rating[2] * t

\* the post to the webhook failed and the submission was answered 201
C24_Witness ==
  \E p \in ProcIds :
    /\ procs[p].op = "CreateReview" /\ procs[p].pc = "done"
    /\ procs[p].slack = "failed" /\ procs[p].posts = 1
    /\ procs[p].resp[1] = 201
    /\ \E rv \in reviews :
         rv.reviewer = procs[p].actor /\ rv.lendingRequest = procs[p].req
    /\ users[procs[p].target].reviewCount >= 1

(***************************************************************************)
(* Properties of the profile operations                                    *)
(***************************************************************************)

\* C25: under any interleaving, a stored profileImage is a URL that the
\* blob store returned for an upload that completed; an upload that fails
\* ends the profile operation with 500, and a profile operation writes the
\* user record only in its final step, after the upload.
C25_UploadBeforeReference ==
  /\ [](\A u \in UserIds :
          (UserExists(u) /\ users[u].profileImage # 0)
          => users[u].profileImage \in blobs)
  /\ [][ \A p \in ProcIds :
           ( /\ procs'[p] # procs[p]
             /\ procs[p].op \in {"PutProfile", "ProfileImage"}
             /\ procs[p].pc \notin {"idle", "done"} )
           => /\ (procs[p].pc = "upload" /\ blobs' = blobs) =>
                   /\ procs'[p].pc = "done"
                   /\ procs'[p].resp[1] = 500
              /\ procs[p].pc \notin {"save", "update"} => users' = users ]_vars

\* an upload failed for a profile edit that also renamed the user: the
\* request was answered 500 and the stored record is as it was registered
C25_Witness ==
  \E p \in ProcIds :
    /\ procs[p].op = "PutProfile" /\ procs[p].pc = "done"
    /\ procs[p].file = "image" /\ procs[p].newName = "renamed"
    /\ procs[p].resp = <<500, "Server error">>
    /\ users[procs[p].actor] = InitUser
    /\ \E u \in UserIds : users[u].profileImage \in blobs

(***************************************************************************)
(* Properties of the catalogue                                             *)
(***************************************************************************)

\* C26: an item whose isActive is false is in no answer of the public
\* listing, of the per-user listings or of the single-item fetch; fetching
\* it answers 404 and leaves viewCount alone; updating it answers 404 and
\* changes nothing; booking it is refused and no request is stored.
C26_InactiveHidden ==
  /\ [](\A p \in ProcIds :
          (procs[p].pc = "done" /\ procs[p].op \in ItemOps)
          => \A i \in procs[p].found : items[i].isActive = TRUE)
  /\ [][\A i \in ItemIds :
          ~items[i].isActive =>
            /\ items'[i] = items[i]
            /\ \A r \in ReqIds :
                 (requests'[r] # requests[r]) => requests'[r].item # i
            /\ (bk = NoCall /\ bk'.op = "CreateRequest" /\ bk'.item = i)
                 => bk'.result = "NotFoundError" /\ requests' = requests
            /\ \A p \in ProcIds :
                 ( /\ procs[p].op \in {"GetItem", "UpdateItem"}
                   /\ procs[p].pc = "findItem"
                   /\ procs[p].target = i
                   /\ procs'[p] # procs[p] )
                 => procs'[p].pc = "done" /\ procs'[p].resp[1] = 404]_vars

\* a deleted item that had been viewed was fetched again: 404, and one item
\* is left in the public listing
C26_Witness ==
  \E p \in ProcIds, i \in ItemIds :
    /\ procs[p].op = "GetItem" /\ procs[p].pc = "done" /\ procs[p].target = i
    /\ procs[p].resp = <<404, "Item not found">>
    /\ items[i] # NoItem /\ ~items[i].isActive /\ items[i].viewCount > 0
    /\ \E j \in ItemIds : items[j].isActive

(***************************************************************************)
(* Properties of the reports                                               *)
(***************************************************************************)
ReportStatusMoves ==
  {<<"Pending", "Reviewing">>, <<"Pending", "Resolved">>, <<"Pending", "Dismissed">>,
   <<"Reviewing", "Resolved">>, <<"Reviewing", "Dismissed">>}

\* C27: the status of a report moves only along Pending -> Reviewing ->
\* {Resolved, Dismissed}, Reviewing being optional, so that a report that is
\* Resolved or Dismissed keeps its status; and a report that is Resolved or
\* Dismissed has resolvedBy and resolvedAt set.
C27_ReportStatus ==
  /\ [](\A rp \in reports :
          rp.status \in {"Resolved", "Dismissed"}
          => rp.resolvedBy # 0 /\ rp.resolvedAt # 0)
  /\ [][\A rp \in reports : \A rq \in reports' :
          (rq.id = rp.id /\ rq.status # rp.status)
          => <<rp.status, rq.status>> \in ReportStatusMoves]_vars

\* C28: every stored report names exactly one of reportedItem and
\* reportedUser, and a creation that names neither or both stores nothing.
C28_ReportTarget ==
  /\ [](\A rp \in reports : (rp.reportedItem # 0) # (rp.reportedUser # 0))
  /\ [][\A p \in ProcIds :
          ( /\ procs[p].op = "CreateReport"
            /\ (procs[p].reportedItem # 0) = (procs[p].reportedUser # 0) )
          => reports' = reports]_vars

(***************************************************************************)
(* Properties of the handlers under store failures                         *)
(***************************************************************************)
\* what a handler that was cut short has left in the store: a review whose
\* rating update did not happen, deactivated items of a user who was not
\* deleted, a deleted item of an account that was not deleted
PartialEffect(pr) ==
  CASE pr.op = "CreateReview" ->
         /\ ~pr.dup
         /\ \E rv \in reviews : rv.lendingRequest = pr.req /\ rv.reviewer = pr.actor
    [] pr.op = "DeleteUser" ->
         /\ UserExists(pr.target)
         /\ \E i \in ItemIds :
              items[i] # NoItem /\ items[i].owner = pr.target /\ ~items[i].isActive
    [] pr.op = "DeleteAccount" ->
         /\ UserExists(pr.actor)
         /\ pr.actor \in ItemIds /\ items[pr.actor] = NoItem
    [] OTHER -> FALSE

\* C29: an operation with several store writes that fails part-way (answer
\* 500) leaves no partial effect in the store.
C29_AllOrNothing ==
  \A p \in ProcIds :
    (procs[p].pc = "done" /\ procs[p].op \in MultiWriteOps /\ procs[p].resp[1] = 500)
    => ~PartialEffect(procs[p])

(***************************************************************************)
(* Properties of the readiness middleware                                  *)
(***************************************************************************)
DbUnavailable == ~db.configured \/ ~db.connected

\* the store proper: what the route handlers read and write
store == <<users, items, requests, reviews, messages, reports, blobs>>

\* C30, as stated: while the database is unconfigured or not connected,
\* every request under /api that is answered before it reaches a route
\* handler is answered 503, and the store is untouched; /health and / are
\* served.
C30_Unavailable503 ==
  [][\A p \in ProcIds :
       /\ ( /\ DbUnavailable
            /\ procs[p].pc \in {"limiter", "gate"}
            /\ procs'[p] # procs[p] )
          => /\ store' = store
             /\ procs'[p].pc \in {"gate", "done"}
             /\ procs'[p].pc = "done" => procs'[p].resp[1] = 503
       /\ (procs[p].pc = "serve" /\ procs'[p] # procs[p])
          => procs'[p].pc = "done" /\ procs'[p].resp[1] = 200]_vars

\* C30, amended: while the database is unconfigured or not connected, a
\* request under /api never gets past the readiness middleware: it is
\* answered 503 there, unless the rate limiter in front of it has already
\* answered 429; no route handler runs and the store is untouched; /health
\* and / are served whatever the state of the connection.
C30_UnavailableRefused ==
  /\ [](db.mongoReady => db.configured /\ db.connected)
  /\ [][\A p \in ProcIds :
          /\ ( /\ DbUnavailable
               /\ procs[p].pc \in {"limiter", "gate"}
               /\ procs'[p] # procs[p] )
             => /\ store' = store
                /\ procs'[p].pc \in {"gate", "done"}
                /\ procs[p].pc = "gate"
                     => procs'[p].pc = "done" /\ procs'[p].resp[1] = 503
                /\ (procs[p].pc = "limiter" /\ procs'[p].pc = "done")
                     => procs'[p].resp[1] = 429 /\ db.hits >= RateMax
          /\ (procs[p].pc = "serve" /\ procs'[p] # procs[p])
             => procs'[p].pc = "done" /\ procs'[p].resp[1] = 200]_vars

\* the connection was lost: one request under /api has been answered 503
\* and the health check 200
C30_Witness ==
  /\ db.configured /\ ~db.connected
  /\ \E p, q \in ProcIds :
       /\ procs[p].op = "MyItems" /\ procs[p].pc = "done"
       /\ procs[p].resp = <<503, "Database connection unavailable">>
       /\ procs[q].op = "Health" /\ procs[q].pc = "done" /\ procs[q].resp[1] = 200

(***************************************************************************)
(* Properties of the gates in front of the admin operations                *)
(***************************************************************************)
\* the role stored for caller a, "none" for a caller without token or account
StoredRole(a) == IF a \in UserIds THEN users[a].role ELSE "none"

OtherParty(lr, u) == IF lr.borrower = u THEN lr.lender ELSE lr.borrower

\* C32: rating and reviewCount of a user change only in the update step of
\* a review submission or of a review deletion, and a submission changes
\* them only for the other party of the reviewed request.
C32_RatingFrame ==
  [][\A u \in UserIds :
       ( /\ UserExists(u) /\ users'[u] # NoUser
         /\ \/ users'[u].rating # users[u].rating
            \/ users'[u].reviewCount # users[u].reviewCount )
       => \E p \in ProcIds :
            /\ procs'[p] # procs[p]
            /\ procs[p].pc = "updateUser"
            /\ procs[p].op \in {"CreateReview", "DeleteReview"}
            /\ procs[p].op = "CreateReview"
                 => /\ requests[procs[p].req] # NoReq
                    /\ u = OtherParty(requests[procs[p].req], procs[p].actor)]_vars

(***************************************************************************)
(* Ownership of items                                                      *)
(***************************************************************************)
\* a step of an update or delete whose caller is not the owner of the item
ForeignWrite(p) ==
  /\ procs[p].op \in {"UpdateItem", "DeleteItem"}
  /\ procs[p].pc = "findItem"
  /\ procs'[p] # procs[p]
  /\ procs[p].target \in ItemIds
  /\ items[procs[p].target] # NoItem
  /\ items[procs[p].target].owner # procs[p].actor

OwnerKept ==
  \A i \in ItemIds :
    (items[i] # NoItem /\ items'[i] # NoItem) => items'[i].owner = items[i].owner

\* C33, as stated: the owner of an item never changes, and an update or
\* delete by a user who is not the owner is answered 403 and leaves the
\* item unchanged, whatever the body names.
C33_ForeignForbidden ==
  [][/\ OwnerKept
     /\ \A p \in ProcIds :
          ForeignWrite(p) => /\ procs'[p].pc = "done" /\ procs'[p].resp[1] = 403
                             /\ items' = items]_vars

\* C33, amended: the owner of an item never changes, and an update or
\* delete by a user who is not the owner fails and leaves the item
\* unchanged, whatever the body names: with 403, except that the update of
\* a soft-deleted item is answered 404 before the owner is looked at.
C33_ForeignRefused ==
  [][/\ OwnerKept
     /\ \A p \in ProcIds :
          ForeignWrite(p)
          => /\ procs'[p].pc = "done" /\ items' = items
             /\ procs'[p].resp[1] =
                  IF procs[p].op = "UpdateItem" /\ ~items[procs[p].target].isActive
                  THEN 404 ELSE 403
     /\ \A p \in ProcIds :
          ( /\ procs[p].op \in {"UpdateItem", "DeleteItem"}
            /\ procs'[p] # procs[p] /\ items' # items )
          => items[procs[p].target].owner = procs[p].actor]_vars

\* the owner has renamed the item; another user's update naming owner has
\* been answered 403, and the item is still the owner's
C33_Witness ==
  \E p \in ProcIds, i \in ItemIds :
    /\ procs[p].op = "UpdateItem" /\ procs[p].pc = "done" /\ procs[p].target = i
    /\ procs[p].content = "owner" /\ procs[p].resp[1] = 403
    /\ items[i].title = "changed" /\ items[i].owner # procs[p].actor
    /\ items[i] = [InitItem(items[i].owner, 100) EXCEPT !.title = "changed"]

(***************************************************************************)
(* References to deleted users and items                                   *)
(***************************************************************************)
\* C34: no stored item, lending request, review or message references a
\* user who has been deleted, and no stored lending request references an
\* item that has been deleted.
C34_NoDanglingReference ==
  /\ \A u \in UserIds :
       ~UserExists(u) =>
         /\ \A i \in ItemIds : items[i] # NoItem => items[i].owner # u
         /\ \A r \in ReqIds :
              requests[r] # NoReq => requests[r].borrower # u /\ requests[r].lender # u
         /\ \A rv \in reviews : rv.reviewer # u /\ rv.reviewee # u
         /\ \A m \in messages : m.sender # u
  /\ \A i \in ItemIds :
       items[i] = NoItem => \A r \in ReqIds : requests[r] # NoReq => requests[r].item # i

\* C35: the readiness flag is true exactly when the connection is up, so
\* that no request under /api is answered 503 by the readiness middleware
\* while the connection is up.
C35_ReadyInSync ==
  /\ [](db.mongoReady <=> db.connected)
  /\ [][\A p \in ProcIds :
          (procs[p].pc = "gate" /\ db.connected /\ procs'[p] # procs[p])
          => procs'[p].pc = "auth"]_vars

(***************************************************************************)
(* The verification gate of the messaging operations                       *)
(***************************************************************************)
\* C36: a user whose isVerified is false gets no message in any answer of a
\* messaging operation and stores no message: reading a thread and sending
\* are answered 403 NOT_VERIFIED.
C36_UnverifiedSeesNothing ==
  /\ [](\A p \in ProcIds :
          ( /\ procs[p].op \in {"GetThread", "SendMessage", "Conversations"}
            /\ procs[p].pc = "done"
            /\ procs[p].actor \in UserIds
            /\ UserExists(procs[p].actor)
            /\ ~users[procs[p].actor].isVerified )
          => procs[p].found = {})
  /\ [][/\ \A m \in messages' :
            (\A n \in messages : n.id # m.id) => users[m.sender].isVerified
         /\ \A p \in ProcIds :
              ( /\ procs[p].op \in {"GetThread", "SendMessage"}
                /\ procs[p].pc = "auth" /\ procs'[p] # procs[p]
                /\ AuthDenial(procs[p].actor) = <<0, "">>
                /\ ~users[procs[p].actor].isVerified )
              => procs'[p].pc = "done" /\ procs'[p].resp = <<403, "NOT_VERIFIED">>]_vars

C38_BanExpiry ==
  [][\A p \in ProcIds :
       ( /\ procs[p].op = "Login" /\ procs[p].pc = "comparePassword"
         /\ procs'[p] # procs[p]
         /\ UserExists(procs[p].actor)
         /\ procs[p].pw = users[procs[p].actor].password
         /\ users[procs[p].actor].isBanned )
       => LET u == users[procs[p].actor]
          IN IF u.bannedUntil = 0 \/ u.bannedUntil > now
             THEN /\ procs'[p].pc = "done"
                  /\ procs'[p].resp = <<403, "ACCOUNT_BANNED">>
             ELSE procs'[p].pc = "save"]_vars

(***************************************************************************)
(* The soft delete flag                                                    *)
(***************************************************************************)
\* C39: served one at a time, no step of an owner, a user or an admin,
\* the owner's update naming isActive and the unban of the owner included,
\* makes an inactive item active.
C39_InactiveStays ==
  [][\A i \in ItemIds :
       (items[i] # NoItem /\ ~items[i].isActive)
       => (items'[i] = NoItem \/ ~items'[i].isActive)]_vars

\* the owner of an inactive item, banned and unbanned since, has asked for
\* isActive: true and has been answered 404
C39_Witness ==
  \E p \in ProcIds, i \in ItemIds :
    /\ items[i] # NoItem /\ ~items[i].isActive
    /\ procs[p].op = "UpdateItem" /\ procs[p].pc = "done" /\ procs[p].target = i
    /\ procs[p].actor = items[i].owner /\ procs[p].content = "isActiveTrue"
    /\ procs[p].resp = <<404, "Item has been deleted">>

(***************************************************************************)
(* A read of a thread concurrent with a send                               *)
(***************************************************************************)
\* C40: with requests served concurrently, every message that becomes read
\* becomes so in the marking step of a read of its thread whose list of
\* messages, found in the step before, holds that message.
C40_ReadOnlyDelivered ==
  [][\A m \in messages, m2 \in messages' :
       (m2.id = m.id /\ ~m.isRead /\ m2.isRead)
       => \E p \in ProcIds :
            /\ procs[p].op = "GetThread" /\ procs[p].pc = "markRead"
            /\ procs'[p] # procs[p]
            /\ \E f \in procs[p].found : f.id = m.id]_vars

====
